---------------------------- MODULE Spec2Model ----------------------------
(***************************************************************************)
(* mdtoolkit: the Markdown structural extraction engine.                   *)
(*                                                                         *)
(*   extract_code_blocks  (src/mdtoolkit/extractor.py, src/tool.py)        *)
(*   extract_tables       (src/mdtoolkit/tables.py,    src/tool.py)        *)
(*                                                                         *)
(* A text is a sequence of one-character strings.  Offsets are 0-based as  *)
(* in the Python source: the character at offset p is text[p + 1].         *)
(***************************************************************************)
EXTENDS Integers, Sequences, FiniteSets, TLC

VARIABLES
    md_text,    \* the document handed to the scanner
    pc,         \* where control is: "start", then the places each action names
    matches,    \* the match objects m that fence_re.finditer produced
    blocks,     \* result of extract_code_blocks
    runs,       \* the local raw of extract_tables, one per run it consumed
    tables,     \* result of extract_tables
    given,      \* the parts InitOneFence assembled md_text from
    scan,       \* the locals of the scanner loop being stepped through
    out_dir,    \* the output directory of save_code_files: file name to content
    saved,      \* the local saved of save_code_files: one entry per file written
    menu,       \* the locals of run_menu and what the session did so far
    fetch       \* the fetcher's environment and what it did so far

vars == <<md_text, pc, matches, blocks, runs, tables, given,
          scan, out_dir, saved, menu, fetch>>

-----------------------------------------------------------------------------
(* Bounds of the model.                                                    *)

MaxPieces == 6      \* pieces of a fence document (InitFence)
MaxPre    == 2      \* lines before the fence (InitOneFence)
MaxBody   == 3      \* characters of BODY (InitOneFence)
MaxLines  == 4      \* lines of a table document (InitTable)
MaxLoopPieces == 5  \* pieces of a fence document (InitLoops)
MaxSearchLen == 6   \* characters of a text whose lines are searched (InitSearch)
MaxFenced == 2      \* fenced blocks of a paired document (InitPaired)
MaxFiles == 3       \* files of a directory tree that is scanned (InitFind)
MaxCalls == 2       \* calls of github_flow, one after the other (NextCall)
MaxPicks == 2       \* inputs one call of pick_md_file reads (PickPrompt)
MaxRuns == 2        \* files processed one by one in one call of github_flow

-----------------------------------------------------------------------------
(* Characters and Python string helpers.                                   *)

\* the backquote; SANY reads a backquote inside a string as the start of a
\* quotation, so the character is written by name
TICK  == "BQ"
NL    == "\n"
FENCE == <<TICK, TICK, TICK>>

Range(s) == {s[i] : i \in 1..Len(s)}

LowerLetters == <<"a", "b", "c", "d", "e", "f", "g", "h", "i", "j", "k", "l", "m", "n",
                 "o", "p", "q", "r", "s", "t", "u", "v", "w", "x", "y", "z">>
UpperLetters == <<"A", "B", "C", "D", "E", "F", "G", "H", "I", "J", "K", "L", "M", "N",
                 "O", "P", "Q", "R", "S", "T", "U", "V", "W", "X", "Y", "Z">>
Digits == <<"0", "1", "2", "3", "4", "5", "6", "7", "8", "9">>

\* [a-zA-Z0-9_+#.-] of fence_re
LangCharset == Range(LowerLetters) \cup Range(UpperLetters) \cup Range(Digits)
                 \cup {"_", "+", "#", ".", "-"}

\* [ \t] of fence_re
FenceBlank == {" ", "\t"}

\* what str.strip() with no argument removes, and what \s matches
Whitespace == {" ", "\t", "\n", "\r", "\f"}

\* text[a:b] with 0-based offsets, 0 <= a, b <= len(text)
Slice(text, a, b) == IF b <= a THEN <<>> ELSE SubSeq(text, a + 1, b)

\* the character at offset p, "" past the end of the text
At(text, p) == IF p >= 0 /\ p < Len(text) THEN text[p + 1] ELSE ""

RECURSIVE LStrip(_, _)
LStrip(s, chars) ==
    IF s # <<>> /\ Head(s) \in chars THEN LStrip(Tail(s), chars) ELSE s

RECURSIVE RStrip(_, _)
RStrip(s, chars) ==
    IF s # <<>> /\ s[Len(s)] \in chars
    THEN RStrip(SubSeq(s, 1, Len(s) - 1), chars) ELSE s

\* str.strip(): every leading and every trailing whitespace character
strip(s) == RStrip(LStrip(s, Whitespace), Whitespace)

\* str.strip(chars)
strip_chars(s, chars) == RStrip(LStrip(s, chars), chars)

RECURSIVE Flatten(_)
Flatten(ss) == IF ss = <<>> THEN <<>> ELSE Head(ss) \o Flatten(Tail(ss))

-----------------------------------------------------------------------------
(* fence_re, compiled with re.DOTALL and searched without an anchor:       *)
(*   three backquotes, any blanks [ \t], group 1: any characters of        *)
(*   [a-zA-Z0-9_+#.-], optionally ":" and group 2: one or more characters  *)
(*   other than "\n", then "\n", group 3: as few characters as possible,   *)
(*   then three backquotes.                                                *)

NoMatch == [ok |-> FALSE]

\* the first offset >= p whose character is not in S (len(text) if none)
RECURSIVE SkipWhile(_, _, _)
SkipWhile(text, p, S) ==
    IF p < Len(text) /\ text[p + 1] \in S THEN SkipWhile(text, p + 1, S) ELSE p

\* the first offset >= p whose character is "\n" (len(text) if none): [^\n]+
RECURSIVE SkipToNewline(_, _)
SkipToNewline(text, p) ==
    IF p < Len(text) /\ text[p + 1] # NL THEN SkipToNewline(text, p + 1) ELSE p

HasFenceAt(text, q) == q + 3 <= Len(text) /\ Slice(text, q, q + 3) = FENCE

\* a greedy group 3: the last fence at or after p closes the block
RECURSIVE LastFenceFrom(_, _)
LastFenceFrom(text, p) ==
    IF p + 3 > Len(text) THEN -1
    ELSE LET later == LastFenceFrom(text, p + 1) IN
         IF later >= 0 THEN later
         ELSE IF HasFenceAt(text, p) THEN p ELSE -1

\* the lazy group 3 and the closer: the first offset q >= p at which a fence stands, -1 if none
RECURSIVE FirstFenceFrom(_, _)
FirstFenceFrom(text, p) ==
    IF p + 3 > Len(text) THEN -1
    ELSE IF HasFenceAt(text, p) THEN p
    ELSE FirstFenceFrom(text, p + 1)

\* the closer made optional: a fence nothing closes runs to the end of the text
MatchBodyToEnd(text, s, g1, has2, g2, bodyStart) ==
    LET q == FirstFenceFrom(text, bodyStart)
        e == IF q < 0 THEN Len(text) ELSE q IN
    [ok |-> TRUE, start |-> s, end |-> e + 3,
     g1 |-> g1, has2 |-> has2, g2 |-> g2,
     g3 |-> Slice(text, bodyStart, e)]

\* the body and the closer, once the opening line has matched up to its "\n"
MatchBody(text, s, g1, has2, g2, bodyStart) ==
    LET q == FirstFenceFrom(text, bodyStart) IN
    IF q < 0 THEN NoMatch
    ELSE [ok |-> TRUE, start |-> s, end |-> q + 3,
          g1 |-> g1, has2 |-> has2, g2 |-> g2,
          g3 |-> Slice(text, bodyStart, q)]

\* fence_re tried at offset s.  The opening line matches in one way only:
\* the blanks and the tag are maximal (giving a character back leaves a blank
\* or a tag character where ":" or "\n" is required), and [^\n]+ must run to
\* the newline.
MatchAt(text, s) ==
    IF ~HasFenceAt(text, s) THEN NoMatch
    ELSE
      LET p1 == SkipWhile(text, s + 3, FenceBlank)
          p2 == SkipWhile(text, p1, LangCharset)
          g1 == Slice(text, p1, p2)
          p3 == SkipToNewline(text, p2 + 1)
      IN  IF At(text, p2) = NL
          THEN MatchBody(text, s, g1, FALSE, <<>>, p2 + 1)
          ELSE IF At(text, p2) = ":" /\ p3 > p2 + 1 /\ At(text, p3) = NL
          THEN MatchBody(text, s, g1, TRUE, Slice(text, p2 + 1, p3), p3 + 1)
          ELSE NoMatch

\* an iterator that looks for the next match right after the opening
\* backquotes of the last one
RECURSIVE finditer_overlapping(_, _)
finditer_overlapping(text, s) ==
    IF s + 3 > Len(text) THEN <<>>
    ELSE LET m == MatchAt(text, s) IN
         IF m.ok THEN <<m>> \o finditer_overlapping(text, m.start + 3)
         ELSE finditer_overlapping(text, s + 1)

\* fence_re.finditer(text) from offset s: leftmost matches, not overlapping
RECURSIVE finditer(_, _)
finditer(text, s) ==
    IF s + 3 > Len(text) THEN <<>>
    ELSE LET m == MatchAt(text, s) IN
         IF m.ok THEN <<m>> \o finditer(text, m.end)
         ELSE finditer(text, s + 1)

-----------------------------------------------------------------------------
(* The line index of extract_code_blocks.                                  *)

\* line_starts = [0] + [i + 1 for i, ch in enumerate(md_text) if ch == "\n"]
RECURSIVE LineStartsFrom(_, _)
LineStartsFrom(text, i) ==
    IF i >= Len(text) THEN <<>>
    ELSE IF text[i + 1] = NL THEN <<i + 1>> \o LineStartsFrom(text, i + 1)
    ELSE LineStartsFrom(text, i + 1)

line_starts(text) == <<0>> \o LineStartsFrom(text, 0)

\* the while loop of offset_to_line
RECURSIVE BinarySearch(_, _, _, _)
BinarySearch(ls, offset, lo, hi) ==
    IF lo < hi
    THEN LET mid == (lo + hi + 1) \div 2 IN
         IF ls[mid + 1] <= offset
         THEN BinarySearch(ls, offset, mid, hi)
         ELSE BinarySearch(ls, offset, lo, mid - 1)
    ELSE lo

RECURSIVE BinarySearchStrict(_, _, _, _)
BinarySearchStrict(ls, offset, lo, hi) ==
    IF lo < hi
    THEN LET mid == (lo + hi + 1) \div 2 IN
         IF ls[mid + 1] < offset
         THEN BinarySearchStrict(ls, offset, mid, hi)
         ELSE BinarySearchStrict(ls, offset, lo, mid - 1)
    ELSE lo

\* offset_to_line with "<" for "<=": the first character of a line goes
\* to the line before
offset_to_line_strict(ls, offset) ==
    BinarySearchStrict(ls, offset, 0, Len(ls) - 1) + 1

\* offset_to_line returning the 0-based index
offset_to_line_zero(ls, offset) == BinarySearch(ls, offset, 0, Len(ls) - 1)

offset_to_line(ls, offset) == BinarySearch(ls, offset, 0, Len(ls) - 1) + 1

-----------------------------------------------------------------------------
(* extract_code_blocks                                                     *)

\* the tuple built from one match with the hint taken from the tag
block_of_swapped(text, m) ==
    [lang    |-> strip(m.g1),
     hint    |-> IF m.has2 THEN strip(m.g2) ELSE strip(m.g1),
     code    |-> m.g3,
     line_no |-> offset_to_line(line_starts(text), m.start)]

\* the loop body: (lang, hint, code, line_no) of one match
block_of(text, m) ==
    [lang    |-> IF m.g1 # <<>> THEN strip(m.g1) ELSE <<>>,
     hint    |-> IF m.has2 /\ m.g2 # <<>> THEN strip(m.g2) ELSE <<>>,
     code    |-> m.g3,
     line_no |-> offset_to_line(line_starts(text), m.start)]

extract_code_blocks(text, ms) == [i \in 1..Len(ms) |-> block_of(text, ms[i])]

-----------------------------------------------------------------------------
(* Documents.                                                              *)

\* the values of the variables a specification does not use
NoScan  == [on |-> "none"]
NoMenu  == [on |-> "none"]
NoFetch == [on |-> "none"]

ScanIdle  == scan = NoScan
SaveIdle  == out_dir = <<>> /\ saved = <<>>
MenuIdle  == menu = NoMenu
FetchIdle == fetch = NoFetch

NoGiven == [pre |-> <<>>, lang |-> <<>>, name |-> <<>>, body |-> <<>>,
            post |-> <<>>]

RECURSIVE SeqsUpTo(_, _)
SeqsUpTo(S, n) ==
    IF n = 0 THEN {<<>>}
    ELSE LET shorter == SeqsUpTo(S, n - 1) IN
         shorter \cup {Append(s, x) : s \in {t \in shorter : Len(t) = n - 1},
                                       x \in S}

\* what a fence document is put together from
FencePieces == {FENCE, <<TICK>>, <<NL>>, <<"a">>, <<":">>, <<" ">>}

\* the documents of at most n pieces
FenceTexts(n) == {Flatten(ps) : ps \in SeqsUpTo(FencePieces, n)}

InitFence ==
    /\ md_text \in FenceTexts(MaxPieces)
    /\ pc = "start"
    /\ matches = <<>>
    /\ blocks = <<>>
    /\ runs = <<>>
    /\ tables = <<>>
    /\ given = NoGiven
    /\ ScanIdle /\ SaveIdle /\ MenuIdle /\ FetchIdle

ExtractCodeBlocks ==
    /\ pc = "start"
    /\ pc' = "code"
    /\ matches' = finditer(md_text, 0)
    /\ blocks' = extract_code_blocks(md_text, matches')
    /\ UNCHANGED <<md_text, runs, tables, given, scan, out_dir, saved, menu, fetch>>

NextFence == ExtractCodeBlocks

SpecFence == InitFence /\ [][NextFence]_vars

-----------------------------------------------------------------------------
(* What the claims about the fence scanner are stated with.                *)

Min(S) == CHOOSE x \in S : \A y \in S : x <= y


\* the offsets at which three backquotes stand
FenceOffsets(text) == {q \in 0..(Len(text) - 3) : HasFenceAt(text, q)}

\* the number of "\n" among the characters before offset p
NewlinesBefore(text, p) == Cardinality({j \in 1..p : text[j] = NL})

\* the offset of the "\n" ending the line of offset s, len(text) on the last line
LineEnd(text, s) ==
    Min({p \in s..Len(text) : p = Len(text) \/ text[p + 1] = NL})

IsLineStart(text, s) == s = 0 \/ text[s] = NL

\* what follows the three backquotes at s on their line
OpeningLine(text, s) == Slice(text, s + 3, LineEnd(text, s))

\* no three backquotes stand after the line of offset s; fences is
\* FenceOffsets(text)
UnterminatedAt(text, fences, s) ==
    LET nl == LineEnd(text, s) IN \A q \in fences : q <= nl

\* C1: every reported block carries the line number 1 + (number of "\n"
\* before the offset of its opening backquotes), and every offset of the
\* last line resolves to the index of the last line.
C1_LineNumber ==
    pc = "code" =>
      /\ \A i \in 1..Len(blocks) :
           blocks[i].line_no = 1 + NewlinesBefore(md_text, matches[i].start)
      /\ \A off \in 0..Len(md_text) :
           NewlinesBefore(md_text, off) = NewlinesBefore(md_text, Len(md_text))
             => offset_to_line(line_starts(md_text), off)
                  = 1 + NewlinesBefore(md_text, Len(md_text))

\* a block opening on line 3
C1_Witness ==
    /\ pc = "code"
    /\ \E i \in 1..Len(blocks) : blocks[i].line_no = 3

\* C3: the closer of every block is the first fence after the newline that
\* ends its opening line; the body is the text between the two and holds no
\* three backquotes.
C3_NonGreedyBody ==
    pc = "code" =>
      LET fences == FenceOffsets(md_text) IN
      \A i \in 1..Len(blocks) :
        LET nl     == LineEnd(md_text, matches[i].start)
            closer == Min({q \in fences : q > nl})
        IN  /\ blocks[i].code = Slice(md_text, nl + 1, closer)
            /\ matches[i].end = closer + 3
            /\ FenceOffsets(blocks[i].code) = {}

\* a block with a body, followed by a further fence a greedy body would reach
C3_Witness ==
    /\ pc = "code"
    /\ \E i \in 1..Len(blocks) :
         /\ blocks[i].code # <<>>
         /\ \E q \in FenceOffsets(md_text) : q >= matches[i].end

\* C4: every block opens at a line start.
C4_FenceAtLineStart ==
    pc = "code" =>
      \A i \in 1..Len(matches) : IsLineStart(md_text, matches[i].start)

\* C5: no block opens at a fence that no three backquotes follow after its
\* line.
C5_Unterminated ==
    pc = "code" =>
      LET fences == FenceOffsets(md_text) IN
      \A s \in fences :
        UnterminatedAt(md_text, fences, s) =>
          \A i \in 1..Len(matches) : matches[i].start # s

\* a block, then a bare opening line that nothing closes
C5_Witness ==
    /\ pc = "code"
    /\ Len(blocks) = 1
    /\ \E s \in FenceOffsets(md_text) :
         /\ s >= matches[1].end
         /\ IsLineStart(md_text, s)
         /\ UnterminatedAt(md_text, FenceOffsets(md_text), s)
         /\ At(md_text, s + 3) = NL

\* the opening line is blanks followed by a tag, nothing else
TagOnly(line) ==
    \E k \in 0..Len(line) :
      /\ \A j \in 1..k : line[j] \in FenceBlank
      /\ \A j \in (k + 1)..Len(line) : line[j] \in LangCharset

TagOf(line) == SelectSeq(line, LAMBDA c : c \notin FenceBlank)

\* C6: a block whose opening line has no ":" reports the tag of that line
\* (empty when the line has none) and an empty hint; and when the first
\* fence of the text is such a line and three backquotes follow it, the
\* first block is the one it opens.
C6_TagWithoutHint ==
    pc = "code" =>
      /\ \A i \in 1..Len(blocks) :
           LET line == OpeningLine(md_text, matches[i].start) IN
           ":" \notin Range(line) =>
             /\ blocks[i].hint = <<>>
             /\ blocks[i].lang = TagOf(line)
      /\ LET fences == FenceOffsets(md_text) IN
         fences # {} =>
           LET s    == Min(fences)
               line == OpeningLine(md_text, s)
           IN  (TagOnly(line) /\ ~UnterminatedAt(md_text, fences, s)) =>
                 /\ Len(blocks) >= 1
                 /\ matches[1].start = s
                 /\ blocks[1].lang = TagOf(line)
                 /\ blocks[1].hint = <<>>

\* an opening line with a blank and a tag, no hint
C6_Witness ==
    /\ pc = "code"
    /\ \E i \in 1..Len(blocks) :
         /\ blocks[i].lang = <<"a">>
         /\ blocks[i].hint = <<>>
         /\ OpeningLine(md_text, matches[i].start) = <<" ", "a">>

-----------------------------------------------------------------------------
(* One well-formed fence: the document of the second testable property.    *)

\* lines that may stand before the fence
PreLines == {<<>>, <<"a">>, <<TICK, TICK>>}

RECURSIVE WithNewlines(_)
WithNewlines(ls) ==
    IF ls = <<>> THEN <<>> ELSE Head(ls) \o <<NL>> \o WithNewlines(Tail(ls))

FenceLangs == {<<>>, <<"a">>, <<"A", "-">>}

\* file names: no newline, no blank at either end
FenceNames == {<<"a", ".", "b">>, <<"a", " ", "b">>, <<":", TICK>>}

\* the bodies of at most n characters
FenceBodies(n) == SeqsUpTo({"a", NL, TICK}, n)

\* what may follow the closer
FencePosts == {<<>>, <<NL>>, <<" ", "a">>, <<TICK>>}

OneFenceText(g) ==
    g.pre \o FENCE \o g.lang \o <<":">> \o g.name \o <<NL>>
          \o g.body \o <<NL>> \o FENCE \o g.post

InitOneFence ==
    /\ given \in [pre  : {WithNewlines(ls) : ls \in SeqsUpTo(PreLines, MaxPre)},
                  lang : FenceLangs,
                  name : FenceNames,
                  body : FenceBodies(MaxBody),
                  post : FencePosts]
    /\ md_text = OneFenceText(given)
    \* exactly one fence: its two delimiters are the only three backquotes
    /\ Cardinality(FenceOffsets(md_text)) = 2
    /\ pc = "start"
    /\ matches = <<>>
    /\ blocks = <<>>
    /\ runs = <<>>
    /\ tables = <<>>
    /\ ScanIdle /\ SaveIdle /\ MenuIdle /\ FetchIdle

SpecOneFence == InitOneFence /\ [][NextFence]_vars

\* C2: a text holding exactly one well-formed fence lang:name.ext with body
\* BODY, opening on line L, yields exactly one block: (lang, name.ext,
\* BODY + "\n", L).
C2_OneWellFormedFence ==
    pc = "code" =>
      blocks = << [lang    |-> given.lang,
                   hint    |-> given.name,
                   code    |-> given.body \o <<NL>>,
                   line_no |-> 1 + NewlinesBefore(given.pre, Len(given.pre))] >>

\* the fence opens on line 3, has a tag, a body holding backquotes and a
\* newline, and text after the closer
C2_Witness ==
    /\ pc = "code"
    /\ Len(blocks) = 1
    /\ blocks[1].line_no = 3
    /\ blocks[1].lang # <<>>
    /\ TICK \in Range(given.body)
    /\ NL \in Range(given.body)
    /\ given.post # <<>>

-----------------------------------------------------------------------------
(* extract_tables                                                          *)

\* the line boundaries of str.splitlines() among the characters of the model
LineBreaks == {"\n", "\r", "\f"}

\* md_text.splitlines(): cur is the line being read; "\r\n" is one boundary
\* and a text ending in a boundary has no empty last line
RECURSIVE SplitLinesFrom(_, _, _)
SplitLinesFrom(text, p, cur) ==
    IF p >= Len(text) THEN (IF cur = <<>> THEN <<>> ELSE <<cur>>)
    ELSE IF text[p + 1] \in LineBreaks
    THEN LET step == IF text[p + 1] = "\r" /\ At(text, p + 1) = "\n"
                     THEN 2 ELSE 1
         IN  <<cur>> \o SplitLinesFrom(text, p + step, <<>>)
    ELSE SplitLinesFrom(text, p + 1, Append(cur, text[p + 1]))

splitlines(text) == SplitLinesFrom(text, 0, <<>>)

\* a blank line taken for a line of the table
is_table_line_or_blank(l) ==
    l = <<>> \/ (Head(l) = "|" /\ l[Len(l)] = "|")

\* l.startswith("|") and l.endswith("|"), l already stripped
is_table_line(l) == l # <<>> /\ Head(l) = "|" /\ l[Len(l)] = "|"

\* [\s\-|:] of the separator pattern
SeparatorClass == Whitespace \cup {"-", "|", ":"}

AllIn(r, a, b, S) == \A j \in a..b : r[j] \in S

\* re.match of ^\s*\|?[\s\-|:]+\|?\s*$ on r: blanks r[1..a], an optional
\* "|", a class run ending at c that is at least one character long, an
\* optional "|", and blanks to the end
is_separator(r) ==
    \E a \in 0..Len(r), p1 \in {0, 1}, c \in 1..Len(r), p2 \in {0, 1} :
      /\ AllIn(r, 1, a, Whitespace)
      /\ p1 = 1 => (a + 1 <= Len(r) /\ r[a + 1] = "|")
      /\ c >= a + p1 + 1
      /\ AllIn(r, a + p1 + 1, c, SeparatorClass)
      /\ p2 = 1 => (c + 1 <= Len(r) /\ r[c + 1] = "|")
      /\ c + p2 <= Len(r)
      /\ AllIn(r, c + p2 + 1, Len(r), Whitespace)

\* str.split(sep) with a one-character separator
RECURSIVE split(_, _)
split(s, sep) ==
    IF \E i \in 1..Len(s) : s[i] = sep
    THEN LET i == Min({j \in 1..Len(s) : s[j] = sep}) IN
         <<SubSeq(s, 1, i - 1)>> \o split(SubSeq(s, i + 1, Len(s)), sep)
    ELSE <<s>>

\* the cells with exactly one "|" taken from each end of the line
cells_one_pipe(r) ==
    LET parts == split(SubSeq(r, 2, Len(r) - 1), "|") IN
    [i \in 1..Len(parts) |-> strip(parts[i])]

\* the cells as split, without c.strip()
cells_unstripped(r) == split(strip_chars(r, {"|"}), "|")

\* [c.strip() for c in r.strip("|").split("|")]
cells(r) ==
    LET parts == split(strip_chars(r, {"|"}), "|") IN
    [i \in 1..Len(parts) |-> strip(parts[i])]

\* only the line right under the header is taken for a separator
rows_of_second(raw) ==
    LET keep == {i \in 1..Len(raw) : ~(i = 2 /\ is_separator(raw[i]))}
        F[i \in 0..Len(raw)] ==
          IF i = 0 THEN <<>>
          ELSE IF i \in keep THEN Append(F[i - 1], cells(raw[i])) ELSE F[i - 1]
    IN  F[Len(raw)]

\* rows = [cells(r) for r in raw if not re.match(separator, r)]
RECURSIVE rows_of(_)
rows_of(raw) ==
    IF raw = <<>> THEN <<>>
    ELSE IF is_separator(Head(raw)) THEN rows_of(Tail(raw))
    ELSE <<cells(Head(raw))>> \o rows_of(Tail(raw))

\* the inner while loop testing lines[i] where the source tests lines[i].strip()
RECURSIVE RunEnd_unstripped(_, _)
RunEnd_unstripped(lines, i) ==
    IF i <= Len(lines) /\ is_table_line(lines[i])
    THEN RunEnd_unstripped(lines, i + 1) ELSE i

\* the inner while loop: the first index >= i (1-based) that is past the end
\* or whose stripped line is no table line
RECURSIVE RunEnd(_, _)
RunEnd(lines, i) ==
    IF i <= Len(lines) /\ is_table_line(strip(lines[i]))
    THEN RunEnd(lines, i + 1) ELSE i

\* the outer while loop from index i (1-based): one record per run consumed,
\* with the lines it covers, its raw list and its rows
RECURSIVE ScanRuns(_, _)
ScanRuns(lines, i) ==
    IF i > Len(lines) THEN <<>>
    ELSE IF is_table_line(strip(lines[i]))
    THEN LET j   == RunEnd(lines, i)
             raw == [k \in 1..(j - i) |-> strip(lines[i + k - 1])]
         IN  << [first |-> i, last |-> j - 1, raw |-> raw,
                 rows |-> rows_of(raw)] >> \o ScanRuns(lines, j)
    ELSE ScanRuns(lines, i + 1)

\* tables.append(rows) without the test of rows
tables_of_unguarded(rs) == [k \in 1..Len(rs) |-> rs[k].rows]

\* if rows: tables.append(rows)
RECURSIVE tables_of(_)
tables_of(rs) ==
    IF rs = <<>> THEN <<>>
    ELSE IF Head(rs).rows # <<>> THEN <<Head(rs).rows>> \o tables_of(Tail(rs))
    ELSE tables_of(Tail(rs))

extract_tables(text) == tables_of(ScanRuns(splitlines(text), 1))

-----------------------------------------------------------------------------
(* Table documents.                                                        *)

\* the lines a table document is made of
TableLines ==
    { <<>>,                                                 \* blank
      <<"|", "a">>,                                         \* no closing pipe
      <<"|", "a", "|", "b", "|">>,                          \* |a|b|
      <<"|", "-", "|", ":", "-", "|">>,                     \* |-|:-|
      <<" ", "|", " ", "b", " ", "|", " ", "a", " ", "|", " ">>,  \* | b | a |
      <<"|", "|", "a", "|">>,                               \* ||a|
      <<"|">>,                                              \* lone pipe
      <<"|", " ", "|", "a", " ", "b", "|">> }               \* | |a b|

RECURSIVE JoinLines(_)
JoinLines(ls) ==
    IF ls = <<>> THEN <<>>
    ELSE IF Len(ls) = 1 THEN Head(ls)
    ELSE Head(ls) \o <<NL>> \o JoinLines(Tail(ls))

InitTable ==
    /\ \E ls \in SeqsUpTo(TableLines, MaxLines) : md_text = JoinLines(ls)
    /\ pc = "start"
    /\ matches = <<>>
    /\ blocks = <<>>
    /\ runs = <<>>
    /\ tables = <<>>
    /\ given = NoGiven
    /\ ScanIdle /\ SaveIdle /\ MenuIdle /\ FetchIdle

ExtractTables ==
    /\ pc = "start"
    /\ pc' = "tables"
    /\ runs' = ScanRuns(splitlines(md_text), 1)
    /\ tables' = extract_tables(md_text)
    /\ UNCHANGED <<md_text, matches, blocks, given, scan, out_dir, saved, menu, fetch>>

NextTable == ExtractTables

SpecTable == InitTable /\ [][NextTable]_vars

-----------------------------------------------------------------------------
(* What the claims about the table scanner are stated with.                *)

\* the physical lines of the document
DocLines == splitlines(md_text)

\* a candidate table line: trimmed, it starts and ends with "|"
CandidateLine(l) ==
    LET t == strip(l) IN t # <<>> /\ t[1] = "|" /\ t[Len(t)] = "|"

\* only whitespace, "-", "|" and ":"
SeparatorLike(l) == Range(l) \subseteq (Whitespace \cup {"-", "|", ":"})

\* the maximal runs of consecutive candidate lines, as <<first, last>>
MaximalRuns(lines) ==
    {r \in (1..Len(lines)) \X (1..Len(lines)) :
       /\ r[1] <= r[2]
       /\ \A k \in r[1]..r[2] : CandidateLine(lines[k])
       /\ r[1] = 1 \/ ~CandidateLine(lines[r[1] - 1])
       /\ r[2] = Len(lines) \/ ~CandidateLine(lines[r[2] + 1])}

\* the lines first..last that are not separator-like, in order
SurvivorsOf(lines, first, last) ==
    SelectSeq(SubSeq(lines, first, last), LAMBDA l : ~SeparatorLike(l))

RECURSIVE InDocumentOrder(_)
InDocumentOrder(S) ==
    IF S = {} THEN <<>>
    ELSE LET m == CHOOSE r \in S : \A q \in S : r[1] <= q[1] IN
         <<m>> \o InDocumentOrder(S \ {m})

\* the runs the scan consumed that have a surviving line
GoodRuns ==
    SelectSeq(runs, LAMBDA r : SurvivorsOf(DocLines, r.first, r.last) # <<>>)

\* a line or a row without its pipes and its whitespace
Content(l) == SelectSeq(l, LAMBDA c : c \notin (Whitespace \cup {"|"}))

NoWhitespace(l) == SelectSeq(l, LAMBDA c : c \notin Whitespace)

PipeCount(l) == Cardinality({j \in 1..Len(l) : l[j] = "|"})

\* sep.join(row)
RECURSIVE join(_, _)
join(sep, row) ==
    IF row = <<>> THEN <<>>
    ELSE IF Len(row) = 1 THEN Head(row)
    ELSE Head(row) \o sep \o join(sep, Tail(row))

\* C7: the grids are the runs with a surviving line, in order, and the rows
\* of a grid are exactly the lines of its run that are not separator-like,
\* in their order, wherever in the run the separator-like lines stand; a
\* header, a separator and a data line give the two rows.
C7_SeparatorFilter ==
    pc = "tables" =>
      LET lines == DocLines
          good  == GoodRuns
      IN  /\ Len(tables) = Len(good)
          /\ \A k \in 1..Len(good) :
               LET sv == SurvivorsOf(lines, good[k].first, good[k].last)
               IN  /\ Len(tables[k]) = Len(sv)
                   /\ \A i \in 1..Len(sv) :
                        Content(Flatten(tables[k][i])) = Content(sv[i])
          /\ lines = << <<"|", "a", "|", "b", "|">>,
                        <<"|", "-", "|", ":", "-", "|">>,
                        <<" ", "|", " ", "b", " ", "|", " ", "a", " ", "|", " ">> >>
               => tables = << << << <<"a">>, <<"b">> >>, << <<"b">>, <<"a">> >> >> >>

\* a run whose third line is separator-like and whose other lines survive
C7_Witness ==
    /\ pc = "tables"
    /\ \E k \in 1..Len(runs) :
         /\ Len(runs[k].raw) >= 3
         /\ SeparatorLike(runs[k].raw[3])
         /\ ~SeparatorLike(runs[k].raw[1])
         /\ ~SeparatorLike(runs[k].raw[2])
         /\ Len(runs[k].rows) = Len(runs[k].raw) - 1

\* C8: every row is its line with exactly one "|" removed from each end,
\* split on "|", each piece trimmed; so it has (number of "|" of the trimmed
\* line) - 1 cells.
C8_CellSplit ==
    pc = "tables" =>
      LET good == GoodRuns IN
      \A k \in 1..Len(good) :
        LET sv == SurvivorsOf(good[k].raw, 1, Len(good[k].raw))
        IN  \A i \in 1..Len(sv) :
              /\ tables[k][i] = cells_one_pipe(sv[i])
              /\ Len(tables[k][i]) = PipeCount(sv[i]) - 1

\* C9: "|" + " | ".join(row) + "|" is, whitespace apart, a line of the run
\* the row comes from.
C9_RoundTrip ==
    pc = "tables" =>
      LET lines == DocLines
          good  == GoodRuns
      IN  \A k \in 1..Len(good) :
            \A i \in 1..Len(tables[k]) :
              \E j \in good[k].first..good[k].last :
                NoWhitespace(<<"|">> \o join(<<" ", "|", " ">>, tables[k][i])
                                   \o <<"|">>)
                  = NoWhitespace(lines[j])

\* C10: the runs the scan consumes are the maximal runs of candidate lines,
\* each once and in document order, so no line belongs to two of them and a
\* line that is no candidate ends a run; there is one grid per maximal run
\* with a surviving line, in document order.
C10_MaximalRuns ==
    pc = "tables" =>
      LET lines == DocLines
          mr    == MaximalRuns(lines)
          good  == InDocumentOrder(
                     {r \in mr : SurvivorsOf(lines, r[1], r[2]) # <<>>})
      IN  /\ Len(runs) = Cardinality(mr)
          /\ \A k \in 1..Len(runs) : <<runs[k].first, runs[k].last>> \in mr
          /\ \A k \in 1..(Len(runs) - 1) : runs[k].last < runs[k + 1].first
          /\ Len(tables) = Len(good)
          /\ \A k \in 1..Len(good) :
               LET sv == SurvivorsOf(lines, good[k][1], good[k][2]) IN
               /\ Len(tables[k]) = Len(sv)
               /\ Content(Flatten(tables[k][1])) = Content(sv[1])

\* two runs with a blank line between them, and two grids
C10_Witness ==
    /\ pc = "tables"
    /\ Len(tables) = 2
    /\ Len(runs) = 2
    /\ runs[2].first = runs[1].last + 2
    /\ DocLines[runs[1].last + 1] = <<>>

\* C11: a run whose every line is separator-like gives no grid and every
\* other run gives exactly one, so every grid has a first row and that row
\* has a cell: tbl[0] and len(tbl[0]) are always defined.
C11_NoEmptyGrid ==
    pc = "tables" =>
      LET lines == DocLines IN
      /\ Len(tables)
           = Cardinality({k \in 1..Len(runs) :
               \E j \in runs[k].first..runs[k].last : ~SeparatorLike(lines[j])})
      /\ \A k \in 1..Len(runs) :
           (\A j \in runs[k].first..runs[k].last : SeparatorLike(lines[j]))
             => runs[k].rows = <<>>
      /\ \A k \in 1..Len(tables) :
           /\ Len(tables[k]) >= 1
           /\ Len(tables[k][1]) >= 1

\* a run of separator-like lines only, then a run that gives a grid
C11_Witness ==
    /\ pc = "tables"
    /\ Len(runs) = 2
    /\ runs[1].rows = <<>>
    /\ Len(runs[1].raw) = 2
    /\ Len(tables) = 1

-----------------------------------------------------------------------------
(* The two scanner loops, one iteration at a time.                         *)

\* fence_re.search(text, s): the leftmost match starting at offset >= s
RECURSIVE search(_, _)
search(text, s) ==
    IF s + 3 > Len(text) THEN NoMatch
    ELSE LET m == MatchAt(text, s) IN
         IF m.ok THEN m ELSE search(text, s + 1)

InitLoops ==
    /\ md_text \in FenceTexts(MaxLoopPieces)
                     \cup {JoinLines(ls) : ls \in SeqsUpTo(TableLines, MaxLines)}
    /\ pc = "start"
    /\ matches = <<>>
    /\ blocks = <<>>
    /\ runs = <<>>
    /\ tables = <<>>
    /\ given = NoGiven
    /\ ScanIdle /\ SaveIdle /\ MenuIdle /\ FetchIdle

\* tables = []; lines = md_text.splitlines(); i = 0
TablesEnter ==
    /\ pc = "start"
    /\ pc' = "tables_loop"
    /\ scan' = [on |-> "extract_tables", lines |-> splitlines(md_text),
                i |-> 0, visited |-> <<>>]
    /\ UNCHANGED <<md_text, matches, blocks, runs, tables, given,
                   out_dir, saved, menu, fetch>>

\* one iteration of the outer while loop; visited records the value of i the
\* iteration began with, and an iteration begins only while it has room
TablesIterate ==
    /\ pc = "tables_loop"
    /\ scan.i < Len(scan.lines)
    /\ Len(scan.visited) <= Len(scan.lines)
    /\ LET lines == scan.lines
           i     == scan.i + 1
       IN  IF is_table_line(strip(lines[i]))
           THEN LET j    == RunEnd(lines, i)
                    raw  == [k \in 1..(j - i) |-> strip(lines[i + k - 1])]
                    rows == rows_of(raw)
                IN  /\ scan' = [scan EXCEPT !.i = j - 1,
                                            !.visited = Append(@, scan.i)]
                    /\ runs' = Append(runs, [first |-> i, last |-> j - 1,
                                             raw |-> raw, rows |-> rows])
                    /\ tables' = IF rows # <<>> THEN Append(tables, rows)
                                 ELSE tables
           ELSE /\ scan' = [scan EXCEPT !.i = @ + 1,
                                        !.visited = Append(@, scan.i)]
                /\ UNCHANGED <<runs, tables>>
    /\ UNCHANGED <<md_text, pc, matches, blocks, given,
                   out_dir, saved, menu, fetch>>

\* while i < len(lines) is false: return tables
TablesReturn ==
    /\ pc = "tables_loop"
    /\ scan.i >= Len(scan.lines)
    /\ pc' = "tables"
    /\ UNCHANGED <<md_text, matches, blocks, runs, tables, given,
                   scan, out_dir, saved, menu, fetch>>

\* fence_re compiled, line_starts built, result = []
CodeEnter ==
    /\ pc = "start"
    /\ pc' = "code_loop"
    /\ scan' = [on |-> "extract_code_blocks", pos |-> 0, visited |-> <<>>]
    /\ UNCHANGED <<md_text, matches, blocks, runs, tables, given,
                   out_dir, saved, menu, fetch>>

\* one iteration of the for loop over finditer: the next match is found and
\* its tuple appended; the iterator goes on from the end of the match
CodeIterate ==
    /\ pc = "code_loop"
    /\ Len(scan.visited) <= Len(md_text)
    /\ LET m == search(md_text, scan.pos) IN
       /\ m.ok
       /\ matches' = Append(matches, m)
       /\ blocks' = Append(blocks, block_of(md_text, m))
       /\ scan' = [scan EXCEPT !.pos = m.end,
                               !.visited = Append(@, m.start)]
    /\ UNCHANGED <<md_text, pc, runs, tables, given,
                   out_dir, saved, menu, fetch>>

\* the iterator is exhausted: return result
CodeReturn ==
    /\ pc = "code_loop"
    /\ ~search(md_text, scan.pos).ok
    /\ pc' = "code"
    /\ UNCHANGED <<md_text, matches, blocks, runs, tables, given,
                   scan, out_dir, saved, menu, fetch>>

NextLoops ==
    \/ TablesEnter
    \/ TablesIterate
    \/ TablesReturn
    \/ CodeEnter
    \/ CodeIterate
    \/ CodeReturn

SpecLoops == InitLoops /\ [][NextLoops]_vars

StrictlyIncreasing(v) == \A k \in 2..Len(v) : v[k] > v[k - 1]

\* C12: both scanners come to their return on every text.  In extract_tables
\* every outer iteration leaves the index greater than it found it, so the
\* iterations begin at strictly increasing indices below len(lines), at
\* most one per line, so the room an iteration needs is never used up; the
\* same holds of the offsets the fence iterator goes through.  What is
\* returned is the list the scanner is defined to compute.
C12_ScannersTerminate ==
    /\ pc = "tables_loop" =>
         LET v == scan.visited IN
         /\ StrictlyIncreasing(v)
         /\ \A k \in 1..Len(v) : v[k] >= 0 /\ v[k] < Len(scan.lines)
         /\ v # <<>> => scan.i > v[Len(v)]
         /\ scan.i <= Len(scan.lines)
         /\ Len(v) <= Len(scan.lines)
    /\ pc = "code_loop" =>
         LET v == scan.visited IN
         /\ StrictlyIncreasing(v)
         /\ \A k \in 1..Len(v) : v[k] >= 0 /\ v[k] < Len(md_text)
         /\ v # <<>> => scan.pos > v[Len(v)]
         /\ scan.pos <= Len(md_text)
    /\ (pc = "tables" /\ scan # NoScan) =>
         /\ Len(scan.visited) <= Len(scan.lines)
         /\ tables = extract_tables(md_text)
    /\ (pc = "code" /\ scan # NoScan) =>
         blocks = extract_code_blocks(md_text, finditer(md_text, 0))

\* four lines gone through in two iterations: a line that is no table line,
\* then a run of three lines consumed by one pass of the inner loop
C12_Witness ==
    /\ pc = "tables"
    /\ scan # NoScan
    /\ Len(scan.lines) = 4
    /\ scan.visited = <<0, 1>>
    /\ Len(tables) = 1

-----------------------------------------------------------------------------
(* save_code_files: one file per code block in the output directory.       *)

MaxBlocks == 3      \* fences of a document handed to save_code_files

EXT_MAP ==
    { <<<<"p", "y", "t", "h", "o", "n">>, <<"p", "y">>>>,
      <<<<"p", "y">>, <<"p", "y">>>>,
      <<<<"j", "a", "v", "a">>, <<"j", "a", "v", "a">>>>,
      <<<<"j", "a", "v", "a", "s", "c", "r", "i", "p", "t">>, <<"j", "s">>>>,
      <<<<"j", "s">>, <<"j", "s">>>>,
      <<<<"t", "y", "p", "e", "s", "c", "r", "i", "p", "t">>, <<"t", "s">>>>,
      <<<<"t", "s">>, <<"t", "s">>>>,
      <<<<"s", "q", "l">>, <<"s", "q", "l">>>>,
      <<<<"b", "a", "s", "h">>, <<"s", "h">>>>,
      <<<<"s", "h", "e", "l", "l">>, <<"s", "h">>>>,
      <<<<"s", "h">>, <<"s", "h">>>>,
      <<<<"h", "t", "m", "l">>, <<"h", "t", "m", "l">>>>,
      <<<<"c", "s", "s">>, <<"c", "s", "s">>>>,
      <<<<"x", "m", "l">>, <<"x", "m", "l">>>>,
      <<<<"y", "a", "m", "l">>, <<"y", "m", "l">>>>,
      <<<<"y", "m", "l">>, <<"y", "m", "l">>>>,
      <<<<"j", "s", "o", "n">>, <<"j", "s", "o", "n">>>>,
      <<<<"k", "o", "t", "l", "i", "n">>, <<"k", "t">>>>,
      <<<<"g", "o">>, <<"g", "o">>>>,
      <<<<"c", "p", "p">>, <<"c", "p", "p">>>>,
      <<<<"c">>, <<"c">>>>,
      <<<<"r", "u", "b", "y">>, <<"r", "b">>>>,
      <<<<"r", "u", "s", "t">>, <<"r", "s">>>>,
      <<<<"p", "h", "p">>, <<"p", "h", "p">>>>,
      <<<<"s", "w", "i", "f", "t">>, <<"s", "w", "i", "f", "t">>>>,
      <<<<"s", "c", "a", "l", "a">>, <<"s", "c", "a", "l", "a">>>>,
      <<<<"r">>, <<"r">>>>,
      <<<<"m", "a", "r", "k", "d", "o", "w", "n">>, <<"m", "d">>>>,
      <<<<"m", "d">>, <<"m", "d">>>>,
      <<<<"d", "o", "c", "k", "e", "r", "f", "i", "l", "e">>, <<"d", "o", "c", "k", "e", "r", "f", "i", "l", "e">>>> }

TXT       == <<"t", "x", "t">>
CODE_LINE == <<"c", "o", "d", "e", "_", "l", "i", "n", "e">>

\* the output directory run_menu hands over is out_dir / "code"
OutDirName == <<"c", "o", "d", "e">>

\* the index of character c in the sequence s, 0 when it is not there
IndexIn(s, c) == IF \E k \in 1..Len(s) : s[k] = c
                 THEN CHOOSE k \in 1..Len(s) : s[k] = c ELSE 0

\* str.lower() and str.upper()
lower(s) == [i \in 1..Len(s) |->
               IF IndexIn(UpperLetters, s[i]) > 0
               THEN LowerLetters[IndexIn(UpperLetters, s[i])] ELSE s[i]]
upper(s) == [i \in 1..Len(s) |->
               IF IndexIn(LowerLetters, s[i]) > 0
               THEN UpperLetters[IndexIn(LowerLetters, s[i])] ELSE s[i]]

\* str(n) for n >= 0
RECURSIVE str(_)
str(n) == IF n < 10 THEN <<Digits[n + 1]>>
          ELSE str(n \div 10) \o <<Digits[(n % 10) + 1]>>

\* s.replace(old, new) for one-character old and new
replace(s, old, new) == [i \in 1..Len(s) |-> IF s[i] = old THEN new ELSE s[i]]

\* EXT_MAP.get(key, default)
get(key, default) ==
    IF \E e \in EXT_MAP : e[1] = key
    THEN (CHOOSE e \in EXT_MAP : e[1] = key)[2] ELSE default

\* the lookup made with the tag as written
ext_of_as_written(lang) == IF lang # <<>> THEN get(lang, TXT) ELSE TXT

\* ext = EXT_MAP.get(lang.lower(), "txt") if lang else "txt"
ext_of(lang) == IF lang # <<>> THEN get(lower(lang), TXT) ELSE TXT

\* fname = hint.replace("/", "_") if hint else "code_line" + str(line_no) + "." + ext
fname_of(b) ==
    IF b.hint # <<>> THEN replace(b.hint, "/", "_")
    ELSE CODE_LINE \o str(b.line_no) \o <<".">> \o ext_of(b.lang)

\* dest = out_dir / fname, for an fname without "/": pathlib drops a "."
\* component, so out_dir / "." is out_dir itself; self says so
join_path(fname) ==
    IF fname = <<".">> THEN [self |-> TRUE, name |-> OutDirName]
    ELSE [self |-> FALSE, name |-> fname]

\* the offset of the last "." of name, -1 when it has none: name.rfind(".")
rfind_dot(name) ==
    IF \E k \in 1..Len(name) : name[k] = "."
    THEN (CHOOSE k \in 1..Len(name) :
            name[k] = "." /\ \A j \in (k + 1)..Len(name) : name[j] # ".") - 1
    ELSE -1

\* PurePath.suffix and PurePath.stem
suffix(name) ==
    LET i == rfind_dot(name) IN
    IF 0 < i /\ i < Len(name) - 1 THEN Slice(name, i, Len(name)) ELSE <<>>
stem(name) ==
    LET i == rfind_dot(name) IN
    IF 0 < i /\ i < Len(name) - 1 THEN Slice(name, 0, i) ELSE name

\* dest.exists() in the directory with the files fs: the directory itself and
\* its ".." entry always exist
exists(fs, dest) ==
    dest.self \/ dest.name = <<".", ".">> \/ dest.name \in DOMAIN fs

\* the dedup loop that tries <stem>_1<suffix> once and takes it
free_dest_once(fs, dest, st, sfx, dup) ==
    IF exists(fs, dest)
    THEN [self |-> FALSE, name |-> st \o <<"_">> \o str(dup) \o sfx]
    ELSE dest

\* while dest.exists(): dest = out_dir / (stem + "_" + str(dup) + sfx); dup += 1
RECURSIVE free_dest(_, _, _, _, _)
free_dest(fs, dest, st, sfx, dup) ==
    IF exists(fs, dest)
    THEN free_dest(fs, [self |-> FALSE, name |-> st \o <<"_">> \o str(dup) \o sfx],
                   st, sfx, dup + 1)
    ELSE dest

\* dest.write_text(code): the file is created, or its content replaced
write_text(fs, name, code) == (name :> code) @@ fs

\* the for loop over blocks from block k on; the result is the directory and
\* the list saved, which here keeps the locals fname and ext as well
RECURSIVE save_from(_, _, _, _)
save_from(bs, k, fs, sv) ==
    IF k > Len(bs) THEN [fs |-> fs, saved |-> sv]
    ELSE LET b     == bs[k]
             fname == fname_of(b)
             first == join_path(fname)
             dest  == free_dest(fs, first, stem(first.name), suffix(first.name), 1)
         IN  save_from(bs, k + 1, write_text(fs, dest.name, b.code),
                       Append(sv, [name |-> dest.name, line_no |-> b.line_no,
                                   fname |-> fname, first |-> first.name,
                                   ext |-> ext_of(b.lang)]))

\* the fences a document for save_code_files is made of: tag and raw hint
SaveFences ==
    { [lang |-> <<"p", "y">>, hint |-> <<>>],
      [lang |-> <<>>,         hint |-> <<>>],
      [lang |-> <<>>,         hint |-> <<"a">>],
      [lang |-> <<"p", "y">>, hint |-> <<"a", ".", "b">>],
      [lang |-> <<>>,         hint |-> <<"a", "/", "b">>],
      [lang |-> <<>>,         hint |-> <<"a", "_", "b">>],
      [lang |-> <<>>,         hint |-> <<"a", "_", "1">>],
      [lang |-> <<>>,         hint |-> <<".">>],
      [lang |-> <<>>,         hint |-> <<".", ".">>],
      [lang |-> <<>>,         hint |-> <<".", ".", "/", "a">>] }

\* tags: every key of EXT_MAP as written, in capitals and capitalised, and
\* tags that are no key
SaveTags ==
    LET keys == {e[1] : e \in EXT_MAP} IN
    keys \cup {upper(t) : t \in keys}
         \cup {upper(SubSeq(t, 1, 1)) \o Tail(t) : t \in keys}
         \cup {<<"z", "z">>, <<"c", "+", "+">>, <<"p", "y", "3">>, <<"P">>}

\* names the output directory may hold before the call
SaveExisting ==
    { <<"a">>, <<"a", "_", "1">>,
      CODE_LINE \o <<"1", ".", "p", "y">> }

PRE == <<"P", "R", "E">>

\* the k-th fence of a document: the body of the block is its number
RECURSIVE SaveText(_, _)
SaveText(fs, k) ==
    IF k > Len(fs) THEN <<>>
    ELSE FENCE \o fs[k].lang
           \o (IF fs[k].hint # <<>> THEN <<":">> \o fs[k].hint ELSE <<>>)
           \o <<NL>> \o str(k) \o <<NL>> \o FENCE \o <<NL>>
           \o SaveText(fs, k + 1)

InitSave ==
    /\ \E fs \in SeqsUpTo(SaveFences, MaxBlocks)
                   \cup {<<[lang |-> t, hint |-> <<>>]>> : t \in SaveTags},
          ex \in SUBSET SaveExisting :
         /\ md_text = SaveText(fs, 1)
         /\ out_dir = [n \in ex |-> PRE]
         /\ given = [NoGiven EXCEPT !.pre = ex]
    /\ pc = "start"
    /\ matches = <<>>
    /\ blocks = <<>>
    /\ runs = <<>>
    /\ tables = <<>>
    /\ saved = <<>>
    /\ ScanIdle /\ MenuIdle /\ FetchIdle

\* save_code_files(md_path, md_text, out_dir)
SaveCodeFiles ==
    /\ pc = "start"
    /\ pc' = "saved"
    /\ matches' = finditer(md_text, 0)
    /\ blocks' = extract_code_blocks(md_text, matches')
    /\ LET r == save_from(blocks', 1, out_dir, <<>>) IN
       IF blocks' = <<>> THEN UNCHANGED <<out_dir, saved>>
       ELSE out_dir' = r.fs /\ saved' = r.saved
    /\ UNCHANGED <<md_text, runs, tables, given, scan, menu, fetch>>

NextSave == SaveCodeFiles

SpecSave == InitSave /\ [][NextSave]_vars

-----------------------------------------------------------------------------
(* What the claims about save_code_files are stated with.                  *)

\* the names saved before block k
SavedBefore(k) == {saved[j].name : j \in 1..(k - 1)}

\* the number a sequence of decimal digits stands for
RECURSIVE DecimalValue(_)
DecimalValue(ds) ==
    IF ds = <<>> THEN 0
    ELSE 10 * DecimalValue(SubSeq(ds, 1, Len(ds) - 1))
           + (IndexIn(Digits, ds[Len(ds)]) - 1)

IsNumeral(ds) ==
    /\ ds # <<>>
    /\ \A i \in 1..Len(ds) : IndexIn(Digits, ds[i]) > 0
    /\ Len(ds) > 1 => ds[1] # "0"

\* two tags that differ in the case of their letters at most
SameButCase(a, b) ==
    /\ Len(a) = Len(b)
    /\ \A i \in 1..Len(a) :
         \/ a[i] = b[i]
         \/ \E n \in 1..26 : {a[i], b[i]} = {LowerLetters[n], UpperLetters[n]}

\* the table as the claim gives it: the tags with an extension of their own
\* and the tags that are their own extension
TagAliases ==
    { <<<<"p", "y", "t", "h", "o", "n">>, <<"p", "y">>>>,
      <<<<"j", "a", "v", "a", "s", "c", "r", "i", "p", "t">>, <<"j", "s">>>>,
      <<<<"t", "y", "p", "e", "s", "c", "r", "i", "p", "t">>, <<"t", "s">>>>,
      <<<<"b", "a", "s", "h">>, <<"s", "h">>>>,
      <<<<"s", "h", "e", "l", "l">>, <<"s", "h">>>>,
      <<<<"y", "a", "m", "l">>, <<"y", "m", "l">>>>,
      <<<<"k", "o", "t", "l", "i", "n">>, <<"k", "t">>>>,
      <<<<"r", "u", "b", "y">>, <<"r", "b">>>>,
      <<<<"r", "u", "s", "t">>, <<"r", "s">>>>,
      <<<<"m", "a", "r", "k", "d", "o", "w", "n">>, <<"m", "d">>>> }
TagsKept ==
    { <<"p", "y">>,
      <<"j", "s">>,
      <<"t", "s">>,
      <<"s", "h">>,
      <<"y", "m", "l">>,
      <<"m", "d">>,
      <<"j", "a", "v", "a">>,
      <<"s", "q", "l">>,
      <<"h", "t", "m", "l">>,
      <<"c", "s", "s">>,
      <<"x", "m", "l">>,
      <<"j", "s", "o", "n">>,
      <<"g", "o">>,
      <<"c", "p", "p">>,
      <<"c">>,
      <<"p", "h", "p">>,
      <<"s", "w", "i", "f", "t">>,
      <<"s", "c", "a", "l", "a">>,
      <<"r">>,
      <<"d", "o", "c", "k", "e", "r", "f", "i", "l", "e">> }

ExtensionFor(tag) ==
    IF \E e \in TagAliases : SameButCase(tag, e[1])
    THEN (CHOOSE e \in TagAliases : SameButCase(tag, e[1]))[2]
    ELSE IF \E t \in TagsKept : SameButCase(tag, t)
    THEN CHOOSE t \in TagsKept : SameButCase(tag, t)
    ELSE TXT

\* C13: save_code_files leaves one new file per block: the files that were
\* there keep their content, every block's file holds that block's body at
\* the end, and the name of a block's file is its destination when that is
\* free and otherwise <stem>_<k><suffix> for the smallest k >= 1 that is free.
C13_Dedup ==
    pc = "saved" =>
      LET before == given.pre IN
      /\ Len(saved) = Len(blocks)
      /\ Cardinality(DOMAIN out_dir) = Cardinality(before) + Len(blocks)
      /\ \A n \in before : n \in DOMAIN out_dir /\ out_dir[n] = PRE
      /\ \A k \in 1..Len(saved) :
           LET taken   == before \cup SavedBefore(k)
               first   == saved[k].first
               Name(j) == stem(first) \o <<"_">> \o str(j) \o suffix(first)
           IN  /\ saved[k].name \notin taken
               /\ out_dir[saved[k].name] = blocks[k].code
               /\ \/ saved[k].name = first
                  \/ /\ \/ first \in taken
                        \/ blocks[k].hint \in {<<".">>, <<".", ".">>}
                     /\ \E j \in 1..(Cardinality(taken) + 1) :
                          /\ saved[k].name = Name(j)
                          /\ \A i \in 1..(j - 1) : Name(i) \in taken

\* a and a_1 were there: the two blocks named a go to a_2 and a_3
C13_Witness ==
    /\ pc = "saved"
    /\ given.pre = {<<"a">>, <<"a", "_", "1">>}
    /\ Len(saved) = 2
    /\ saved[1].name = <<"a", "_", "2">>
    /\ saved[2].name = <<"a", "_", "3">>
    /\ saved[2].first = <<"a">>

\* C14: every file is written directly inside the output directory under a
\* flat name; before deduplication the name of the destination is the hint
\* with each "/" replaced by "_" when the block has a hint, and
\* code_line<lineNumber>.<ext> when it has none.
C14_Filename ==
    pc = "saved" =>
      \A k \in 1..Len(saved) :
        LET b == blocks[k]
            f == saved[k].first
            e == saved[k].ext
            ds == SubSeq(f, Len(CODE_LINE) + 1, Len(f) - Len(e) - 1)
        IN  /\ saved[k].name # <<>>
            /\ "/" \notin Range(saved[k].name)
            /\ saved[k].name \notin {<<".">>, <<".", ".">>}
            /\ saved[k].name \in DOMAIN out_dir
            /\ b.hint # <<>> =>
                 /\ Len(f) = Len(b.hint)
                 /\ \A i \in 1..Len(f) :
                      f[i] = IF b.hint[i] = "/" THEN "_" ELSE b.hint[i]
            /\ b.hint = <<>> =>
                 /\ f = CODE_LINE \o ds \o <<".">> \o e
                 /\ IsNumeral(ds)
                 /\ DecimalValue(ds) = b.line_no

\* C15: the extension of a block without a hint is the table's entry for
\* its tag whatever the case of the tag's letters, and txt when the tag is
\* empty or not in the table; the file's name ends with it.
C15_Extension ==
    pc = "saved" =>
      \A k \in 1..Len(saved) :
        blocks[k].hint = <<>> =>
          LET e == IF blocks[k].lang = <<>> THEN TXT
                   ELSE ExtensionFor(blocks[k].lang)
              n == saved[k].name
          IN  /\ saved[k].ext = e
              /\ Len(n) > Len(e) + 1
              /\ SubSeq(n, Len(n) - Len(e), Len(n)) = <<".">> \o e

\* the tag KOTLIN gives code_line1.kt
C15_Witness ==
    /\ pc = "saved"
    /\ Len(saved) = 1
    /\ blocks[1].lang = <<"K", "O", "T", "L", "I", "N">>
    /\ saved[1].name = CODE_LINE \o <<"1", ".", "k", "t">>

-----------------------------------------------------------------------------
(* run_menu and the exporters it calls.                                    *)

MaxPrompts == 2     \* choices one interactive session reads

\* the renderers export_pdf tries, in the order it tries them
Renderers == <<"wkhtmltopdf", "google-chrome", "chromium-browser", "chromium">>

\* what the user may type at the prompt
MenuInputs ==
    { <<"1">>,
      <<"2">>,
      <<"3">>,
      <<"4">>,
      <<"5">>,
      <<"6">>,
      <<"7">>,
      <<" ", "6", " ">>,
      <<"q">>,
      <<"Q", "u", "i", "t">>,
      <<"E", "X", "I", "T">>,
      <<"0">>,
      <<"b">>,
      <<"b", "a", "c", "k", " ">>,
      <<>>,
      <<"8">>,
      <<"x">>,
      <<"6", "6">> }

QuitWords ==
    { <<"Q">>, <<"Q", "U", "I", "T">>, <<"E", "X", "I", "T">>, <<"0">>, <<"B">>, <<"B", "A", "C", "K">> }

\* the documents of a session: an empty file, a table only, a fence and a
\* table
MenuTable == <<"|", "a", "|", "b", "|", NL, "|", "-", "|", ":", "-", "|", NL,
               "|", "a", "|", "b", "|", NL>>
MenuDocs ==
    { <<>>,
      MenuTable,
      SaveText(<< [lang |-> <<"p", "y">>, hint |-> <<>>] >>, 1) \o MenuTable }

\* the export_tables whose import of openpyxl is not guarded
export_tables_unguarded(tbls, fmt, openpyxl) ==
    IF tbls = <<>> THEN [status |-> "warn", files |-> {}, raised |-> FALSE]
    ELSE IF fmt = "csv"
    THEN [status |-> "ok", raised |-> FALSE,
          files |-> {[kind |-> "csv", idx |-> i] : i \in 1..Len(tbls)}]
    ELSE IF ~openpyxl THEN [status |-> "err", files |-> {}, raised |-> TRUE]
    ELSE [status |-> "ok", raised |-> FALSE,
          files |-> {[kind |-> "xlsx", idx |-> 0]}]

\* export_tables on the grids tbls: what it reports and the files it writes
\* (<stem>_table<idx>.csv, <stem>_tables.xlsx); openpyxl says whether the
\* import succeeds
export_tables(tbls, fmt, openpyxl) ==
    IF tbls = <<>> THEN [status |-> "warn", files |-> {}, raised |-> FALSE]
    ELSE IF fmt = "csv"
    THEN [status |-> "ok", raised |-> FALSE,
          files |-> {[kind |-> "csv", idx |-> i] : i \in 1..Len(tbls)}]
    ELSE IF ~openpyxl THEN [status |-> "err", files |-> {}, raised |-> FALSE]
    ELSE [status |-> "ok", raised |-> FALSE,
          files |-> {[kind |-> "xlsx", idx |-> 0]}]

\* the renderer loop that goes on to the next binary after a success
RECURSIVE try_renderers_all(_, _, _)
try_renderers_all(env, k, ev) ==
    IF k > Len(Renderers) THEN ev
    ELSE LET r == Renderers[k]
             w == Append(ev, <<"which", r>>)
         IN  IF env[r] = "absent" THEN try_renderers_all(env, k + 1, w)
             ELSE try_renderers_all(env, k + 1, Append(w, <<"run", r>>))

\* the if on wkhtmltopdf and the loop over the browsers, from renderer k on:
\* which, then the run when which found the binary, return on exit status 0.
\* env[r] is one of "absent", "fails", "works".
RECURSIVE try_renderers(_, _, _)
try_renderers(env, k, ev) ==
    IF k > Len(Renderers) THEN ev
    ELSE LET r == Renderers[k]
             w == Append(ev, <<"which", r>>)
         IN  IF env[r] = "absent" THEN try_renderers(env, k + 1, w)
             ELSE IF env[r] = "works" THEN Append(w, <<"run", r>>)
             ELSE try_renderers(env, k + 1, Append(w, <<"run", r>>))

\* export_pdf: save_html first, then the renderers; the PDF is there when a
\* run ended with status 0, and the error is reported when none did
export_pdf(env) ==
    LET ev   == try_renderers(env, 1, << <<"save_html", "html">> >>)
        last == ev[Len(ev)]
        done == last[1] = "run" /\ env[last[2]] = "works"
    IN  [events |-> ev, env |-> env,
         status |-> IF done THEN "ok" ELSE "err",
         raised |-> FALSE,
         files  |-> IF done THEN {[kind |-> "html", idx |-> 0],
                                  [kind |-> "pdf", idx |-> 0]}
                    ELSE {[kind |-> "html", idx |-> 0]}]

NoPdf == [events |-> <<>>]

\* the dispatch that takes the empty line for a request to leave
dispatch_blank_quits(choice) ==
    IF choice = <<"1">> \/ choice = <<"6">> THEN "code"
    ELSE IF choice = <<"2">> THEN "csv"
    ELSE IF choice = <<"3">> THEN "xlsx"
    ELSE IF choice = <<"4">> THEN "html"
    ELSE IF choice = <<"5">> THEN "pdf"
    ELSE IF choice = <<"7">> THEN "summary"
    ELSE IF choice \in QuitWords \/ choice = <<>> THEN "returned"
    ELSE "invalid"

\* the if/elif chain of run_menu: where the choice leads first
dispatch(choice) ==
    IF choice = <<"1">> \/ choice = <<"6">> THEN "code"
    ELSE IF choice = <<"2">> THEN "csv"
    ELSE IF choice = <<"3">> THEN "xlsx"
    ELSE IF choice = <<"4">> THEN "html"
    ELSE IF choice = <<"5">> THEN "pdf"
    ELSE IF choice = <<"7">> THEN "summary"
    ELSE IF choice \in QuitWords THEN "returned"
    ELSE "invalid"

\* where control goes when a call of the branch of choice has returned, or
\* has raised
after(choice, step, raised) ==
    IF raised THEN "raised"
    ELSE IF choice # <<"6">> THEN "menu"
    ELSE IF step = "code" THEN "csv"
    ELSE IF step = "csv" THEN "xlsx"
    ELSE IF step = "xlsx" THEN "html"
    ELSE IF step = "html" THEN "pdf"
    ELSE "all_done"

InitMenu ==
    /\ md_text \in MenuDocs
    /\ pc = "start"
    /\ matches = <<>>
    /\ blocks = <<>>
    /\ runs = <<>>
    /\ tables = <<>>
    /\ given = NoGiven
    /\ out_dir = <<>>
    /\ saved = <<>>
    /\ \E ss \in BOOLEAN :
         menu = [on |-> "run_menu", single_shot |-> ss, raw |-> <<>>,
                 choice |-> <<>>, prompts |-> 0, warned |-> FALSE,
                 ran |-> <<>>, status |-> <<>>, pdf |-> NoPdf, files |-> {}]
    /\ ScanIdle /\ FetchIdle

\* whether md_path exists when load_md looks: a path the user typed may not,
\* a file find_md_files has just listed does
FileThere == IF fetch.on = "github_flow" THEN {TRUE} ELSE BOOLEAN

\* what is typed at the menu: in github_flow the choices that summarise and
\* leave
MenuInputsHere ==
    IF fetch.on = "github_flow" THEN { <<"7">>, <<"q">> } ELSE MenuInputs

\* the binaries the run finds: in github_flow none, or wkhtmltopdf alone
PdfEnvsHere ==
    IF fetch.on = "github_flow"
    THEN { [b \in Range(Renderers) |-> "absent"],
           [b \in Range(Renderers) |->
              IF b = "wkhtmltopdf" THEN "works" ELSE "absent"] }
    ELSE [Range(Renderers) -> {"absent", "fails", "works"}]

\* md_text = load_md(md_path): sys.exit(1) when the file is not there
LoadMd ==
    /\ pc = "start"
    /\ \E there \in FileThere : pc' = IF there THEN "menu" ELSE "exited"
    /\ UNCHANGED <<md_text, matches, blocks, runs, tables, given,
                   scan, out_dir, saved, menu, fetch>>

\* the top of the while loop: the choice is "6" in single-shot mode and
\* input().strip().upper() otherwise; then the branch is entered
ReadChoice ==
    /\ pc = "menu"
    /\ \E raw \in IF menu.single_shot THEN {<<"6">>} ELSE MenuInputsHere :
         LET choice == IF menu.single_shot THEN <<"6">> ELSE upper(strip(raw))
             to     == dispatch(choice)
         IN  /\ menu.single_shot \/ menu.prompts < MaxPrompts
             /\ menu' = [menu EXCEPT
                           !.raw = raw, !.choice = choice,
                           !.prompts = IF menu.single_shot THEN @ ELSE @ + 1,
                           !.warned = (to = "invalid"),
                           !.ran = <<>>, !.status = <<>>, !.pdf = NoPdf]
             /\ pc' = IF to = "invalid" THEN "menu" ELSE to
    /\ UNCHANGED <<md_text, matches, blocks, runs, tables, given,
                   scan, out_dir, saved, fetch>>

\* save_code_files(md_path, md_text, out_dir / "code")
StepCode ==
    /\ pc = "code"
    /\ matches' = finditer(md_text, 0)
    /\ blocks' = extract_code_blocks(md_text, matches')
    /\ LET r == save_from(blocks', 1, out_dir, <<>>) IN
       IF blocks' = <<>> THEN UNCHANGED <<out_dir, saved>>
       ELSE out_dir' = r.fs /\ saved' = r.saved
    /\ menu' = [menu EXCEPT
                  !.ran = Append(@, "code"),
                  !.status = Append(@, IF blocks' = <<>> THEN "warn" ELSE "ok")]
    /\ pc' = after(menu.choice, "code", FALSE)
    /\ UNCHANGED <<md_text, runs, tables, given, scan, fetch>>

\* export_tables(md_path, md_text, "csv", out_dir / "tables")
StepCsv ==
    /\ pc = "csv"
    /\ tables' = extract_tables(md_text)
    /\ LET r == export_tables(tables', "csv", TRUE) IN
       /\ menu' = [menu EXCEPT !.ran = Append(@, "csv"),
                               !.status = Append(@, r.status),
                               !.files = @ \cup r.files]
       /\ pc' = after(menu.choice, "csv", r.raised)
    /\ UNCHANGED <<md_text, matches, blocks, runs, given,
                   scan, out_dir, saved, fetch>>

\* export_tables(md_path, md_text, "xlsx", out_dir / "tables"), with
\* openpyxl installed or not
StepXlsx ==
    /\ pc = "xlsx"
    /\ tables' = extract_tables(md_text)
    /\ \E openpyxl \in BOOLEAN :
         LET r == export_tables(tables', "xlsx", openpyxl) IN
         /\ menu' = [menu EXCEPT !.ran = Append(@, "xlsx"),
                                 !.status = Append(@, r.status),
                                 !.files = @ \cup r.files]
         /\ pc' = after(menu.choice, "xlsx", r.raised)
    /\ UNCHANGED <<md_text, matches, blocks, runs, given,
                   scan, out_dir, saved, fetch>>

\* ok("HTML  ->  " + str(save_html(md_path, md_text, out_dir)))
StepHtml ==
    /\ pc = "html"
    /\ menu' = [menu EXCEPT !.ran = Append(@, "html"),
                            !.status = Append(@, "ok"),
                            !.files = @ \cup {[kind |-> "html", idx |-> 0]}]
    /\ pc' = after(menu.choice, "html", FALSE)
    /\ UNCHANGED <<md_text, matches, blocks, runs, tables, given,
                   scan, out_dir, saved, fetch>>

\* export_pdf(md_path, md_text, out_dir) with the binaries as the run finds
\* them
StepPdf ==
    /\ pc = "pdf"
    /\ \E env \in PdfEnvsHere :
         LET r == export_pdf(env) IN
         /\ menu' = [menu EXCEPT !.ran = Append(@, "pdf"),
                                 !.status = Append(@, r.status),
                                 !.pdf = r,
                                 !.files = @ \cup r.files]
         /\ pc' = after(menu.choice, "pdf", r.raised)
    /\ UNCHANGED <<md_text, matches, blocks, runs, tables, given,
                   scan, out_dir, saved, fetch>>

\* file_summary(md_path, md_text): prints, writes nothing
StepSummary ==
    /\ pc = "summary"
    /\ matches' = finditer(md_text, 0)
    /\ blocks' = extract_code_blocks(md_text, matches')
    /\ tables' = extract_tables(md_text)
    /\ menu' = [menu EXCEPT !.ran = Append(@, "summary"),
                            !.status = Append(@, "ok")]
    /\ pc' = after(menu.choice, "summary", FALSE)
    /\ UNCHANGED <<md_text, runs, given, scan, out_dir, saved, fetch>>

\* ok("All done!"); if single_shot: return
AllDone ==
    /\ pc = "all_done"
    /\ pc' = IF menu.single_shot THEN "returned" ELSE "menu"
    /\ UNCHANGED <<md_text, matches, blocks, runs, tables, given,
                   scan, out_dir, saved, menu, fetch>>

NextMenu ==
    \/ LoadMd
    \/ ReadChoice
    \/ StepCode
    \/ StepCsv
    \/ StepXlsx
    \/ StepHtml
    \/ StepPdf
    \/ StepSummary
    \/ AllDone

SpecMenu == InitMenu /\ [][NextMenu]_vars

-----------------------------------------------------------------------------
(* What the claims about the session are stated with.                      *)

DoEverything == <<"code", "csv", "xlsx", "html", "pdf">>

IsPrefix(a, b) == Len(a) <= Len(b) /\ a = SubSeq(b, 1, Len(a))

\* C16: once Do Everything is chosen, the steps attempted so far are always
\* the first steps of code, csv, xlsx, html, pdf and control stands at the
\* step that comes next, whatever the earlier steps reported; nothing is
\* raised, and after the fifth step an interactive session is back at its
\* prompt while a single-shot call has returned.
C16_DoEverything ==
    /\ pc # "raised"
    /\ (menu.choice = <<"6">> /\ pc \notin {"start", "exited"}) =>
         /\ IsPrefix(menu.ran, DoEverything)
         /\ Len(menu.status) = Len(menu.ran)
         /\ Len(menu.ran) < 5 => pc = DoEverything[Len(menu.ran) + 1]
         /\ Len(menu.ran) = 5 => pc \in {"all_done", "menu", "returned"}
         /\ pc = "menu" => ~menu.single_shot
         /\ pc = "returned" => menu.single_shot

\* no code block, tables written to CSV, openpyxl missing, no renderer that
\* works: all five steps were attempted and the session is at its prompt
C16_Witness ==
    /\ pc = "menu"
    /\ menu.choice = <<"6">>
    /\ menu.ran = DoEverything
    /\ menu.status = <<"warn", "ok", "err", "ok", "err">>
    /\ menu.prompts = 1

\* the position of the first renderer that is installed and exits with
\* status 0, one past the last renderer when there is none
FirstWorking(env) ==
    Min({k \in 1..Len(Renderers) : env[Renderers[k]] = "works"}
          \cup {Len(Renderers) + 1})

IsRun(e) == e[1] = "run"
IsWhich(e) == e[1] = "which"

\* C17: export_pdf writes the HTML file first and once.  It then looks for
\* wkhtmltopdf, google-chrome, chromium-browser, chromium in that order up
\* to the first that is installed and exits with status 0, and runs exactly
\* the installed ones among them.  The PDF is an output when one succeeded;
\* otherwise the failure is reported and the HTML file is the only output.
\* Nothing is raised.
C17_RendererOrder ==
    menu.pdf # NoPdf =>
      LET ev    == menu.pdf.events
          env   == menu.pdf.env
          fw    == FirstWorking(env)
          tried == 1..Min({fw, Len(Renderers)})
          runs_ == SelectSeq(ev, IsRun)
          whichs == SelectSeq(ev, IsWhich)
          inst  == {k \in tried : env[Renderers[k]] # "absent"}
      IN  /\ ev[1] = <<"save_html", "html">>
          /\ \A i \in 2..Len(ev) : ev[i][1] \in {"which", "run"}
          /\ Len(whichs) = Cardinality(tried)
          /\ \A k \in tried : whichs[k][2] = Renderers[k]
          /\ Len(runs_) = Cardinality(inst)
          /\ \A i \in 1..Len(runs_) :
               /\ \E k \in inst : /\ runs_[i][2] = Renderers[k]
                                  /\ Cardinality({j \in inst : j < k}) = i - 1
          /\ \A i \in 2..Len(ev) :
               ev[i][1] = "run" => ev[i - 1] = <<"which", ev[i][2]>>
          /\ ~menu.pdf.raised
          /\ fw <= Len(Renderers) =>
               /\ menu.pdf.status = "ok"
               /\ ev[Len(ev)] = <<"run", Renderers[fw]>>
               /\ menu.pdf.files = {[kind |-> "html", idx |-> 0],
                                    [kind |-> "pdf", idx |-> 0]}
          /\ fw > Len(Renderers) =>
               /\ menu.pdf.status = "err"
               /\ menu.pdf.files = {[kind |-> "html", idx |-> 0]}
          /\ menu.pdf.files \subseteq menu.files

\* wkhtmltopdf is not installed, google-chrome fails, chromium-browser
\* succeeds and chromium is not looked for
C17_Witness ==
    /\ menu.pdf # NoPdf
    /\ menu.pdf.events = << <<"save_html", "html">>,
                            <<"which", "wkhtmltopdf">>,
                            <<"which", "google-chrome">>,
                            <<"run", "google-chrome">>,
                            <<"which", "chromium-browser">>,
                            <<"run", "chromium-browser">> >>
    /\ menu.pdf.env["chromium"] = "works"
    /\ menu.pdf.status = "ok"

\* what the branch of a choice calls, in order
ActionOf(choice) ==
    IF choice = <<"1">> THEN <<"code">>
    ELSE IF choice = <<"2">> THEN <<"csv">>
    ELSE IF choice = <<"3">> THEN <<"xlsx">>
    ELSE IF choice = <<"4">> THEN <<"html">>
    ELSE IF choice = <<"5">> THEN <<"pdf">>
    ELSE IF choice = <<"6">> THEN DoEverything
    ELSE IF choice = <<"7">> THEN <<"summary">>
    ELSE <<>>

MenuKeys == {<<"1">>, <<"2">>, <<"3">>, <<"4">>, <<"5">>, <<"6">>, <<"7">>}

\* C20: in an interactive session the prompt is shown again only when the
\* action of the choice just read has made all its calls, and while calls
\* are outstanding control is at the next of them; a choice that is no menu
\* key and no word for leaving runs nothing and is answered by the warning;
\* the session has returned only on Q, QUIT, EXIT, 0, B or BACK.
C20_MenuLoop ==
    (menu.on = "run_menu" /\ ~menu.single_shot) =>
      /\ pc \in {"start", "exited", "menu", "returned", "all_done"}
                  \cup Range(DoEverything) \cup {"summary"}
      /\ (pc = "menu" /\ menu.prompts > 0) =>
           /\ menu.ran = ActionOf(menu.choice)
           /\ menu.choice \notin QuitWords
           /\ menu.warned <=> menu.choice \notin MenuKeys
           /\ menu.warned => menu.ran = <<>>
      /\ pc \in Range(DoEverything) \cup {"summary"} =>
           /\ IsPrefix(menu.ran, ActionOf(menu.choice))
           /\ Len(menu.ran) < Len(ActionOf(menu.choice))
           /\ pc = ActionOf(menu.choice)[Len(menu.ran) + 1]
      /\ pc = "all_done" => menu.ran = DoEverything
      /\ pc = "returned" =>
           /\ menu.choice \in QuitWords
           /\ menu.ran = <<>>
           /\ menu.prompts > 0

\* the first choice ran its action and left a file; the second line typed,
\* 66, is no choice: the warning is given and the session is at its prompt
C20_Witness ==
    /\ pc = "menu"
    /\ ~menu.single_shot
    /\ menu.prompts = 2
    /\ menu.raw = <<"6", "6">>
    /\ menu.warned
    /\ menu.files # {}

-----------------------------------------------------------------------------
(* The repository fetcher: _do_download, clone_with_git, download_zip.     *)

MAIN   == <<"m", "a", "i", "n">>
MASTER == <<"m", "a", "s", "t", "e", "r">>
HEAD   == <<"H", "E", "A", "D">>

\* the branch handed to _do_download: None (the empty sequence here, falsy
\* like None) or a name, with or without "/"
FetchBranches == {<<>>, MAIN, <<"d", "e", "v">>, <<"f", "/", "x">>, HEAD}

\* the list that tries the default branches whatever branch was asked for
branches_to_try_defaults(branch) == <<MAIN, MASTER, HEAD>>

\* branches_to_try = [branch] if branch else ["main", "master", "HEAD"]
branches_to_try(branch) ==
    IF branch # <<>> THEN <<branch>> ELSE <<MAIN, MASTER, HEAD>>

\* the archive asked for: archive/HEAD.zip or archive/refs/heads/<br>.zip
zip_url(br) == IF br = HEAD THEN <<"archive">> \o <<br>>
               ELSE <<"archive", "refs", "heads">> \o <<br>>

\* what one pass of the try block may come to for branch br.  "http": the
\* request raised HTTPError.  "error": any other exception; writing tmp_zip
\* raises one when br has a "/" and dest.parent holds no directory for the
\* part before it (zipdir).  "moved": the archive was extracted and its
\* top-level folder is dest.parent / (repo + "-" + br).  "left": it was
\* extracted and no such folder exists, the archive's folder having
\* another name.
ZipOutcomes(br, zipdir) ==
    IF "/" \in Range(br) /\ ~zipdir THEN {"http", "error"}
    ELSE {"http", "error", "moved", "left"}

InitFetch ==
    /\ md_text = <<>>
    /\ pc = "start"
    /\ matches = <<>>
    /\ blocks = <<>>
    /\ runs = <<>>
    /\ tables = <<>>
    /\ given = NoGiven
    /\ ScanIdle /\ SaveIdle /\ MenuIdle
    /\ \E b \in FetchBranches, zd \in BOOLEAN, direct \in BOOLEAN :
         \* dest is the empty directory github_flow has just made
         fetch = [on |-> IF direct THEN "download_zip" ELSE "_do_download",
                  branch |-> b, zipdir |-> zd, dest |-> "empty",
                  beside |-> {}, i |-> 1, log |-> <<>>, result |-> "none"]

\* _do_download is called: clone_with_git runs git clone, with --branch when
\* a branch is given; the run raises when there is no git binary
CloneWithGit ==
    /\ pc = "start"
    /\ fetch.on = "_do_download"
    /\ \E git \in {"ok", "fails", "missing"} :
         /\ fetch' = [fetch EXCEPT
                        !.log = Append(@, <<"clone", fetch.branch, git>>),
                        !.dest = IF git = "ok" THEN "tree" ELSE @,
                        !.result = IF git = "ok" THEN "True" ELSE @]
         /\ pc' = IF git = "ok" THEN "returned"
                  ELSE IF git = "fails" THEN "zip" ELSE "raised"
    /\ UNCHANGED <<md_text, matches, blocks, runs, tables, given,
                   scan, out_dir, saved, menu>>

\* download_zip is called by itself
CallDownloadZip ==
    /\ pc = "start"
    /\ fetch.on = "download_zip"
    /\ pc' = "zip"
    /\ UNCHANGED <<md_text, matches, blocks, runs, tables, given,
                   scan, out_dir, saved, menu, fetch>>

\* one iteration of the for loop of download_zip
ZipAttempt ==
    /\ pc = "zip"
    /\ fetch.i <= Len(branches_to_try(fetch.branch))
    /\ LET br == branches_to_try(fetch.branch)[fetch.i] IN
       \E o \in ZipOutcomes(br, fetch.zipdir) :
         /\ fetch' = [fetch EXCEPT
                        !.log = Append(@, <<"zip", br, o, zip_url(br)>>),
                        !.i = @ + 1,
                        \* if extracted.exists(): rmtree(dest); rename
                        !.dest = IF o = "moved" THEN "tree" ELSE @,
                        !.beside = IF o = "left" THEN @ \cup {br} ELSE @,
                        !.result = IF o \in {"moved", "left"} THEN "True"
                                   ELSE @]
         /\ pc' = IF o \in {"moved", "left"} THEN "returned" ELSE "zip"
    /\ UNCHANGED <<md_text, matches, blocks, runs, tables, given,
                   scan, out_dir, saved, menu>>

\* the for loop is over: return False
ZipExhausted ==
    /\ pc = "zip"
    /\ fetch.i > Len(branches_to_try(fetch.branch))
    /\ fetch' = [fetch EXCEPT !.result = "False"]
    /\ pc' = "returned"
    /\ UNCHANGED <<md_text, matches, blocks, runs, tables, given,
                   scan, out_dir, saved, menu>>

NextFetch ==
    \/ CloneWithGit
    \/ CallDownloadZip
    \/ ZipAttempt
    \/ ZipExhausted

SpecFetch == InitFetch /\ [][NextFetch]_vars

-----------------------------------------------------------------------------
(* What the claims about the fetcher are stated with.                      *)

IsZip(e) == e[1] = "zip"

Succeeded(e) == \/ e[1] = "clone" /\ e[3] = "ok"
                \/ e[1] = "zip" /\ e[3] \in {"moved", "left"}

\* the branches the archive fallback is to try for the branch asked for
FallbackOrder(branch) ==
    IF branch = <<>> THEN <<MAIN, MASTER, HEAD>> ELSE <<branch>>

\* C18: _do_download runs git clone first, and an archive is asked for only
\* after a clone that failed.  The archives asked for are the first ones of
\* main, master, HEAD when no branch was given, and the given branch alone
\* otherwise; nothing is tried after an attempt that succeeded.  False is
\* returned only when every attempt was made and failed, True only when the
\* last attempt succeeded.
C18_DownloadOrder ==
    fetch.on \in {"_do_download", "download_zip"} =>
      LET log   == fetch.log
          zips  == SelectSeq(log, IsZip)
          order == FallbackOrder(fetch.branch)
      IN  /\ fetch.on = "_do_download" =>
               /\ log # <<>> => log[1][1] = "clone"
               /\ \A k \in 2..Len(log) : log[k][1] = "zip" /\ log[1][3] = "fails"
          /\ fetch.on = "download_zip" => zips = log
          /\ Len(zips) <= Len(order)
          /\ \A k \in 1..Len(zips) : zips[k][2] = order[k]
          /\ \A k \in 1..(Len(log) - 1) : ~Succeeded(log[k])
          /\ (pc = "returned" /\ fetch.result = "False") =>
               /\ Len(zips) = Len(order)
               /\ \A k \in 1..Len(log) : ~Succeeded(log[k])
          /\ (pc = "returned" /\ fetch.result = "True") =>
               Succeeded(log[Len(log)])
          /\ pc = "returned" => fetch.result \in {"True", "False"}

\* the clone failed, main and master were not found, the archive of HEAD
\* was fetched
C18_Witness ==
    /\ pc = "returned"
    /\ fetch.on = "_do_download"
    /\ fetch.result = "True"
    /\ Len(fetch.log) = 4
    /\ fetch.log[1] = <<"clone", <<>>, "fails">>
    /\ fetch.log[2][3] = "http"
    /\ fetch.log[3][3] = "error"
    /\ fetch.log[4][2] = HEAD

\* C19: when the fetcher has returned True, dest holds the repository's
\* tree.
C19_DestHoldsTree ==
    (pc = "returned" /\ fetch.on # "none" /\ fetch.result = "True") =>
      fetch.dest = "tree"

-----------------------------------------------------------------------------
(* offset_to_line, one iteration of its while loop at a time.              *)

\* the iteration with mid = (lo + hi) // 2
search_step_floor(ls, offset, lo, hi) ==
    LET mid == (lo + hi) \div 2 IN
    IF ls[mid + 1] <= offset THEN [lo |-> mid, hi |-> hi]
    ELSE [lo |-> lo, hi |-> mid - 1]

\* mid = (lo + hi + 1) // 2; lo = mid if line_starts[mid] <= offset else
\* hi = mid - 1
search_step(ls, offset, lo, hi) ==
    LET mid == (lo + hi + 1) \div 2 IN
    IF ls[mid + 1] <= offset THEN [lo |-> mid, hi |-> hi]
    ELSE [lo |-> lo, hi |-> mid - 1]

InitSearch ==
    /\ md_text \in SeqsUpTo({NL, "a"}, MaxSearchLen)
    /\ pc = "start"
    /\ matches = <<>>
    /\ blocks = <<>>
    /\ runs = <<>>
    /\ tables = <<>>
    /\ given = NoGiven
    /\ ScanIdle /\ SaveIdle /\ MenuIdle /\ FetchIdle

\* offset_to_line(offset) is called: lo, hi = 0, len(line_starts) - 1
SearchEnter ==
    /\ pc = "start"
    /\ \E offset \in 0..(Len(md_text) + 1) :
         LET ls == line_starts(md_text) IN
         scan' = [on |-> "offset_to_line", line_starts |-> ls,
                  offset |-> offset, lo |-> 0, hi |-> Len(ls) - 1,
                  visited |-> <<>>, line |-> 0]
    /\ pc' = "search"
    /\ UNCHANGED <<md_text, matches, blocks, runs, tables, given,
                   out_dir, saved, menu, fetch>>

\* one iteration of while lo < hi; visited records lo and hi as the
\* iteration found them, and an iteration begins only while it has room
SearchIterate ==
    /\ pc = "search"
    /\ scan.lo < scan.hi
    /\ Len(scan.visited) <= Len(scan.line_starts)
    /\ LET r == search_step(scan.line_starts, scan.offset, scan.lo, scan.hi) IN
       scan' = [scan EXCEPT !.lo = r.lo, !.hi = r.hi,
                            !.visited = Append(@, <<scan.lo, scan.hi>>)]
    /\ UNCHANGED <<md_text, pc, matches, blocks, runs, tables, given,
                   out_dir, saved, menu, fetch>>

\* return lo + 1
SearchReturn ==
    /\ pc = "search"
    /\ ~(scan.lo < scan.hi)
    /\ scan' = [scan EXCEPT !.line = scan.lo + 1]
    /\ pc' = "line"
    /\ UNCHANGED <<md_text, matches, blocks, runs, tables, given,
                   out_dir, saved, menu, fetch>>

NextSearch ==
    \/ SearchEnter
    \/ SearchIterate
    \/ SearchReturn

SpecSearch == InitSearch /\ [][NextSearch]_vars

\* C25: line_starts is 0 and the offset after every newline, strictly
\* increasing.  Through the search 0 <= lo <= hi <= len(line_starts) - 1,
\* line_starts[lo] <= offset, and every line start after hi is greater than
\* the offset; each iteration narrows hi - lo, so there are fewer of them
\* than line starts.  On return lo is the index of the greatest line start
\* that is <= offset.
C25_BinarySearch ==
    pc \in {"search", "line"} =>
      LET ls == scan.line_starts
          off == scan.offset
          v  == scan.visited
      IN  /\ ls[1] = 0
          /\ \A k \in 2..Len(ls) : ls[k] > ls[k - 1]
          /\ Range(ls) = {0} \cup {j \in 1..Len(md_text) : md_text[j] = NL}
          /\ 0 <= scan.lo /\ scan.lo <= scan.hi /\ scan.hi <= Len(ls) - 1
          /\ ls[scan.lo + 1] <= off
          /\ \A k \in (scan.hi + 2)..Len(ls) : ls[k] > off
          /\ \A k \in 1..Len(v) :
               LET next == IF k < Len(v) THEN v[k + 1]
                           ELSE <<scan.lo, scan.hi>>
               IN  next[2] - next[1] < v[k][2] - v[k][1]
          /\ Len(v) < Len(ls)
          /\ pc = "line" =>
               /\ scan.lo = scan.hi
               /\ \A k \in 0..(Len(ls) - 1) : ls[k + 1] <= off => k <= scan.lo
               /\ scan.line = scan.lo + 1
               /\ scan.line = offset_to_line(ls, off)

\* four line starts, the offset on the third line: two iterations, the
\* first raising lo and the second lowering hi
C25_Witness ==
    /\ pc = "line"
    /\ scan.line_starts = <<0, 1, 3, 5>>
    /\ scan.offset = 4
    /\ scan.visited = << <<0, 3>>, <<2, 3>> >>
    /\ scan.line = 3

-----------------------------------------------------------------------------
\* C26: the blocks are in document order and do not overlap: each begins at
\* or after the end of the one before, and its body is the text the match
\* encloses.  Their line numbers increase strictly, so the names
\* code_line<N>.<ext> of two blocks without hint differ.
C26_BlockOrder ==
    pc = "code" =>
      /\ \A i \in 1..Len(blocks) :
           /\ 0 <= matches[i].start /\ matches[i].start < matches[i].end
           /\ matches[i].end <= Len(md_text)
           /\ Len(blocks[i].code) <= matches[i].end - matches[i].start - 7
           /\ blocks[i].code
                = Slice(md_text, matches[i].end - 3 - Len(blocks[i].code),
                        matches[i].end - 3)
      /\ \A i \in 1..Len(blocks), j \in 1..Len(blocks) :
           i < j =>
             /\ matches[i].end <= matches[j].start
             /\ blocks[i].line_no < blocks[j].line_no
             /\ (blocks[i].hint = <<>> /\ blocks[j].hint = <<>>)
                  => fname_of(blocks[i]) # fname_of(blocks[j])

\* two blocks, the second opening on the line the first is closed on
C26_Witness ==
    /\ pc = "code"
    /\ Len(blocks) = 2
    /\ matches[2].start = matches[1].end
    /\ blocks[1].line_no = 1
    /\ blocks[2].line_no = 2

-----------------------------------------------------------------------------
(* Documents whose delimiters pair up: fenced blocks with text between.    *)

\* what follows the three backquotes on an opening line: nothing, a tag, a
\* tag and a hint, a tag followed by text, a tag followed by "\r", a colon
\* without a hint
PairedOpeners ==
    { <<>>, <<"a">>, <<"a", ":", "b">>, <<"a", " ", "b">>, <<"a", "\r">>,
      <<":">> }

PairedBodies == { <<>>, <<"x", NL>> }

\* the text after a closing fence
PairedGaps == { <<NL>>, <<NL, "t", NL>> }

\* one fenced block and the text after it
PairedParts ==
    { FENCE \o o \o <<NL>> \o b \o FENCE \o g :
        o \in PairedOpeners, b \in PairedBodies, g \in PairedGaps }

InitPaired ==
    /\ \E ps \in SeqsUpTo(PairedParts, MaxFenced) : md_text = Flatten(ps)
    /\ pc = "start"
    /\ matches = <<>>
    /\ blocks = <<>>
    /\ runs = <<>>
    /\ tables = <<>>
    /\ given = NoGiven
    /\ ScanIdle /\ SaveIdle /\ MenuIdle /\ FetchIdle

SpecPaired == InitPaired /\ [][NextFence]_vars

\* the delimiters of the document in order of offset
RECURSIVE Ascending(_)
Ascending(S) ==
    IF S = {} THEN <<>> ELSE <<Min(S)>> \o Ascending(S \ {Min(S)})

\* the offsets of the closing fences when the delimiters pair up in order:
\* the second, the fourth, ...
ClosingFences(text) ==
    LET d == Ascending(FenceOffsets(text)) IN
    {d[k] : k \in {n \in 1..Len(d) : n % 2 = 0}}

\* C27: in a document whose delimiters pair up in order, no reported block
\* opens at a closing fence.
C27_NoBlockAtCloser ==
    pc = "code" =>
      LET closers == ClosingFences(md_text) IN
      \A i \in 1..Len(matches) : matches[i].start \notin closers

-----------------------------------------------------------------------------
\* C28: every row of every grid has at least one cell and at least one cell
\* that is not empty, and no cell holds "|" or begins or ends with
\* whitespace.
C28_RowShape ==
    pc = "tables" =>
      \A k \in 1..Len(tables) : \A r \in 1..Len(tables[k]) :
        LET row == tables[k][r] IN
        /\ Len(row) >= 1
        /\ \E c \in 1..Len(row) : row[c] # <<>>
        /\ \A c \in 1..Len(row) :
             /\ \A i \in 1..Len(row[c]) : row[c][i] # "|"
             /\ row[c] # <<>> =>
                  /\ row[c][1] \notin Whitespace
                  /\ row[c][Len(row[c])] \notin Whitespace

\* a row with an empty cell beside a cell with a blank inside, and a row
\* whose cells were written with blanks around them
C28_Witness ==
    /\ pc = "tables"
    /\ \E k \in 1..Len(tables) :
         /\ \E r \in 1..Len(tables[k]) :
              /\ \E c \in 1..Len(tables[k][r]) : tables[k][r][c] = <<>>
              /\ \E c \in 1..Len(tables[k][r]) :
                   \E i \in 2..(Len(tables[k][r][c]) - 1) :
                     tables[k][r][c][i] = " "
         /\ \E r \in 1..Len(tables[k]) : tables[k][r] = << <<"b">>, <<"a">> >>

-----------------------------------------------------------------------------
(* find_md_files: the Markdown files under a directory.  A path is the      *)
(* sequence of its parts, each part a sequence of characters.               *)

skip_dirs ==
    { <<".", "g", "i", "t">>,
      <<".", "g", "i", "t", "h", "u", "b">>,
      <<"n", "o", "d", "e", "_", "m", "o", "d", "u", "l", "e", "s">>,
      <<"v", "e", "n", "d", "o", "r">>,
      <<".", "t", "o", "x">>,
      <<"_", "_", "p", "y", "c", "a", "c", "h", "e", "_", "_">>,
      <<"v", "e", "n", "v">>,
      <<".", "v", "e", "n", "v">>,
      <<"d", "i", "s", "t">>,
      <<"b", "u", "i", "l", "d">> }

MD_SUFFIXES == { <<".", "m", "d">>, <<".", "m", "a", "r", "k", "d", "o", "w", "n">> }
README == <<"r", "e", "a", "d", "m", "e">>

\* the characters of the model in the order of their code points
CodeOrder ==
    <<"\t", NL, "\r", " ", "#", "+", "-", ".", "/">> \o Digits \o <<":">>
      \o UpperLetters \o <<"_">> \o LowerLetters \o <<"|">>

ord(c) == IndexIn(CodeOrder, c)

\* s < t for two strings
RECURSIVE str_lt(_, _)
str_lt(s, t) ==
    IF t = <<>> THEN FALSE
    ELSE IF s = <<>> THEN TRUE
    ELSE IF Head(s) # Head(t) THEN ord(Head(s)) < ord(Head(t))
    ELSE str_lt(Tail(s), Tail(t))

\* str(path) of a relative path: the parts joined by "/"
RECURSIVE path_str(_)
path_str(parts) ==
    IF parts = <<>> THEN <<".">>
    ELSE IF Len(parts) = 1 THEN Head(parts)
    ELSE Head(parts) \o <<"/">> \o path_str(Tail(parts))

\* p.relative_to(root)
relative_to(p, root) == SubSeq(p, Len(root) + 1, Len(p))

\* the name of a path: its last part
name_of(p) == p[Len(p)]

\* sort_key(p)
sort_key(p, root) ==
    << IF lower(stem(name_of(p))) = README THEN 0 ELSE 1,
       lower(path_str(relative_to(p, root))) >>

key_lt(k1, k2) == k1[1] < k2[1] \/ (k1[1] = k2[1] /\ str_lt(k1[2], k2[2]))

\* root.rglob("*"): every file and every directory below root
rglob(root, files) ==
    UNION {{root \o SubSeq(f, 1, n) : n \in 1..Len(f)} : f \in files}

\* any(part in skip_dirs for part in p.parts)
skipped(p, root) == \E i \in 1..Len(p) : p[i] \in skip_dirs

\* found: the paths the for loop appends, in whatever order rglob gives them
found(root, files) ==
    { p \in rglob(root, files) :
        /\ ~skipped(p, root)
        /\ lower(suffix(name_of(p))) \in MD_SUFFIXES
        /\ relative_to(p, root) \in files }

\* sorted(found, key=sort_key): the sort is stable, so paths with the same
\* key stay in the order rglob gave them, which is any order
Orderings(S) ==
    { s \in [1..Cardinality(S) -> S] : \A i, j \in DOMAIN s : i # j => s[i] # s[j] }

find_md_files(root, files) ==
    { s \in Orderings(found(root, files)) :
        \A i, j \in DOMAIN s :
          i < j => ~key_lt(sort_key(s[j], root), sort_key(s[i], root)) }

\* the current directory the tool is started in, as the parts of an
\* absolute path
FindCwds ==
    { <<<<"/">>, <<"h", "o", "m", "e">>>>,
      <<<<"/">>, <<"b", "u", "i", "l", "d">>>>,
      <<<<"/">>, <<".", "c", "f", "g">>>> }

\* clone_dir = base_out_dir / "repos" / (owner + "_" + repo) with
\* base_out = Path.cwd() / "md_toolkit_output"
clone_dir_of(cwd, owner, repo) ==
    cwd \o <<<<"m", "d", "_", "t", "o", "o", "l", "k", "i", "t", "_", "o", "u", "t", "p", "u", "t">>, <<"r", "e", "p", "o", "s">>, owner \o <<"_">> \o repo>>

\* the files a repository may hold, relative to its root
FindFiles ==
    { <<<<"R", "E", "A", "D", "M", "E", ".", "m", "d">>>>,
      <<<<"d", "o", "c", "s">>, <<"r", "e", "a", "d", "m", "e", ".", "M", "D">>>>,
      <<<<"a", ".", "m", "d">>>>,
      <<<<"B", ".", "m", "a", "r", "k", "d", "o", "w", "n">>>>,
      <<<<".", "h">>, <<"c", ".", "m", "d">>>>,
      <<<<"b", "u", "i", "l", "d">>, <<"d", ".", "m", "d">>>>,
      <<<<"n", "o", "t", "e", "s", ".", "t", "x", "t">>>>,
      <<<<"a", ".", "m", "d", ".", "d">>, <<"e", ".", "m", "d">>>> }

FindTrees == { t \in SUBSET FindFiles : Cardinality(t) <= MaxFiles }

InitFind ==
    /\ md_text = <<>>
    /\ pc = "start"
    /\ matches = <<>>
    /\ blocks = <<>>
    /\ runs = <<>>
    /\ tables = <<>>
    /\ given = NoGiven
    /\ \E cwd \in FindCwds, t \in FindTrees :
         scan = [on |-> "find_md_files",
                 root |-> clone_dir_of(cwd, <<"o">>, <<"r">>),
                 files |-> t, result |-> <<>>]
    /\ SaveIdle /\ MenuIdle /\ FetchIdle

FindMdFiles ==
    /\ pc = "start"
    /\ scan.on = "find_md_files"
    /\ \E r \in find_md_files(scan.root, scan.files) :
         scan' = [scan EXCEPT !.result = r]
    /\ pc' = "found"
    /\ UNCHANGED <<md_text, matches, blocks, runs, tables, given,
                   out_dir, saved, menu, fetch>>

NextFind == FindMdFiles

SpecFind == InitFind /\ [][NextFind]_vars

\* a directory whose name begins with "."
Hidden(part) == part # <<>> /\ part[1] = "."

\* the files of the tree that the scan is to return: Markdown by suffix, in
\* no hidden or skipped directory below the root
Wanted(root, files) ==
    { root \o f : f \in
        { g \in files :
            /\ lower(suffix(name_of(g))) \in MD_SUFFIXES
            /\ \A i \in 1..(Len(g) - 1) :
                 ~Hidden(g[i]) /\ g[i] \notin skip_dirs } }

\* C23: find_md_files returns exactly the Markdown files in no hidden or
\* skipped directory below root, whatever the path to root is; the files
\* whose stem is README come first and the order is otherwise that of the
\* relative paths without regard to case.
C23_FindMdFiles ==
    pc = "found" =>
      LET r == scan.result IN
      /\ Range(r) = Wanted(scan.root, scan.files)
      /\ Len(r) = Cardinality(Wanted(scan.root, scan.files))
      /\ \A i, j \in DOMAIN r :
           i < j => ~key_lt(sort_key(r[j], scan.root), sort_key(r[i], scan.root))

-----------------------------------------------------------------------------
(* parse_github_url: owner, repository and branch of what the user typed.   *)
(* None is the empty sequence, falsy like None.                             *)

SSH_PREFIX   == <<"g", "i", "t", "@", "g", "i", "t", "h", "u", "b", ".", "c", "o", "m", ":">>
HTTP_PREFIX  == <<"h", "t", "t", "p", ":", "/", "/", "g", "i", "t", "h", "u", "b", ".", "c", "o", "m", "/">>
HTTPS_PREFIX == <<"h", "t", "t", "p", "s", ":", "/", "/", "g", "i", "t", "h", "u", "b", ".", "c", "o", "m", "/">>
DOT_GIT      == <<".", "g", "i", "t">>
TREE         == <<"/", "t", "r", "e", "e", "/">>

NoRepo == [owner |-> <<>>, repo |-> <<>>, branch |-> <<>>]

\* the characters [A-Za-z0-9_.-] of the shorthand
ShorthandCharset ==
    Range(LowerLetters) \cup Range(UpperLetters) \cup Range(Digits)
      \cup {"_", ".", "-"}

EndsWith(s, tail) ==
    Len(tail) <= Len(s) /\ SubSeq(s, Len(s) - Len(tail) + 1, Len(s)) = tail

\* the offset of the first "/" of s, Len(s) when it has none
first_slash(s) ==
    IF \E k \in 1..Len(s) : s[k] = "/"
    THEN Min({k \in 1..Len(s) : s[k] = "/"}) - 1 ELSE Len(s)

\* ([^/]+?)(?:\.git)? up to the end of a segment: the lazy group leaves one
\* trailing ".git" to the optional group when something stands before it
repo_group(seg) ==
    IF EndsWith(seg, DOT_GIT) /\ Len(seg) > Len(DOT_GIT)
    THEN SubSeq(seg, 1, Len(seg) - Len(DOT_GIT)) ELSE seg

\* the group that keeps a trailing ".git" in the name
repo_group_whole(seg) == seg

\* ([^/]+)/([^/]+?)(?:\.git)?$ matched against t
match_ssh(t) ==
    LET i    == first_slash(t)
        rest == Slice(t, i + 1, Len(t))
    IN  IF 0 < i /\ i < Len(t) /\ rest # <<>> /\ "/" \notin Range(rest)
        THEN [owner |-> Slice(t, 0, i), repo |-> repo_group(rest),
              branch |-> <<>>]
        ELSE NoRepo

\* ([^/]+)/([^/]+?)(?:\.git)?(?:/tree/(.+))?$ matched against t
match_https(t) ==
    LET i    == first_slash(t)
        rest == Slice(t, i + 1, Len(t))
        j    == first_slash(rest)
        seg  == Slice(rest, 0, j)
        tail == Slice(rest, j, Len(rest))
    IN  IF 0 < i /\ i < Len(t) /\ seg # <<>>
           /\ (tail = <<>> \/ (IsPrefix(TREE, tail) /\ Len(tail) > Len(TREE)))
        THEN [owner |-> Slice(t, 0, i), repo |-> repo_group(seg),
              branch |-> Slice(tail, Len(TREE), Len(tail))]
        ELSE NoRepo

\* ^([A-Za-z0-9_.-]+)/([A-Za-z0-9_.-]+)$ matched against t
match_short(t) ==
    LET i    == first_slash(t)
        rest == Slice(t, i + 1, Len(t))
    IN  IF 0 < i /\ i < Len(t) /\ rest # <<>>
           /\ Range(Slice(t, 0, i)) \subseteq ShorthandCharset
           /\ Range(rest) \subseteq ShorthandCharset
        THEN [owner |-> Slice(t, 0, i), repo |-> rest, branch |-> <<>>]
        ELSE NoRepo

parse_github_url(raw) ==
    LET t == RStrip(strip(raw), {"/"}) IN
    IF IsPrefix(SSH_PREFIX, t)
       /\ match_ssh(Slice(t, Len(SSH_PREFIX), Len(t))) # NoRepo
    THEN match_ssh(Slice(t, Len(SSH_PREFIX), Len(t)))
    ELSE IF IsPrefix(HTTPS_PREFIX, t)
            /\ match_https(Slice(t, Len(HTTPS_PREFIX), Len(t))) # NoRepo
    THEN match_https(Slice(t, Len(HTTPS_PREFIX), Len(t)))
    ELSE IF IsPrefix(HTTP_PREFIX, t)
            /\ match_https(Slice(t, Len(HTTP_PREFIX), Len(t))) # NoRepo
    THEN match_https(Slice(t, Len(HTTP_PREFIX), Len(t)))
    ELSE match_short(t)

\* what the user may type for the repository
GithubInputs ==
    { <<>>,
      <<"x">>,
      <<"a", "_", "b", "/", "c">>,
      <<"a", "/", "b", "_", "c">>,
      <<" ", "a", "/", "b", "_", "c", "/", " ">>,
      <<"h", "t", "t", "p", "s", ":", "/", "/", "g", "i", "t", "h", "u", "b", ".", "c", "o", "m", "/", "a", "/", "b", "_", "c", ".", "g", "i", "t">>,
      <<"g", "i", "t", "@", "g", "i", "t", "h", "u", "b", ".", "c", "o", "m", ":", "a", "/", "b", "_", "c", ".", "g", "i", "t">>,
      <<"h", "t", "t", "p", "s", ":", "/", "/", "g", "i", "t", "h", "u", "b", ".", "c", "o", "m", "/", "a", "_", "b", "/", "c", "/", "t", "r", "e", "e", "/", "f", "/", "x">>,
      <<"h", "t", "t", "p", "s", ":", "/", "/", "g", "i", "t", "h", "u", "b", ".", "c", "o", "m", "/", "a", "/", "b", "_", "c", "/", "i", "s", "s", "u", "e", "s">> }

-----------------------------------------------------------------------------
(* github_flow: the repository is asked for, fetched or taken from the      *)
(* cache, scanned, and the chosen files are handed to run_menu.             *)

\* _do_download(owner, repo, branch, dest) from branch i of download_zip on:
\* what it returns and what dest holds then
RECURSIVE zip_results(_, _, _)
zip_results(brs, i, zipdir) ==
    IF i > Len(brs) THEN {[result |-> "False", dest |-> "empty"]}
    ELSE LET os == ZipOutcomes(brs[i], zipdir) IN
         (IF "moved" \in os THEN {[result |-> "True", dest |-> "tree"]} ELSE {})
           \cup (IF "left" \in os THEN {[result |-> "True", dest |-> "empty"]}
                 ELSE {})
           \cup (IF os \cap {"http", "error"} # {}
                 THEN zip_results(brs, i + 1, zipdir) ELSE {})

\* git clone succeeds, or there is no git binary and subprocess.run raises,
\* or it fails and download_zip is called
do_download(branch) ==
    {[result |-> "True", dest |-> "tree"], [result |-> "raised", dest |-> "empty"]}
      \cup UNION {zip_results(branches_to_try(branch), 1, zd) : zd \in BOOLEAN}

\* int(s): an optional sign and decimal digits
int_of(s) ==
    LET signed == s # <<>> /\ s[1] \in {"+", "-"}
        ds     == IF signed THEN Tail(s) ELSE s
    IN  IF ds # <<>> /\ \A i \in 1..Len(ds) : IndexIn(Digits, ds[i]) > 0
        THEN [ok |-> TRUE,
              value |-> IF signed /\ s[1] = "-" THEN 0 - DecimalValue(ds)
                        ELSE DecimalValue(ds)]
        ELSE [ok |-> FALSE, value |-> 0]

NoChoice == [kind |-> "none", file |-> <<>>]

\* the test 0 <= idx <= len(md_files): md_files[-1] is the last file
pick_from_zero(input, md_files) ==
    LET raw == upper(strip(input))
        n   == int_of(raw)
    IN  IF raw = <<"0">> THEN [kind |-> "None", file |-> <<>>]
        ELSE IF raw = <<"A">> THEN [kind |-> "ALL", file |-> <<>>]
        ELSE IF n.ok /\ 0 <= n.value /\ n.value <= Len(md_files)
        THEN [kind |-> "file",
              file |-> md_files[IF n.value = 0 THEN Len(md_files) ELSE n.value]]
        ELSE NoChoice

\* one iteration of the while loop of pick_md_file on the line read
pick(input, md_files) ==
    LET raw == upper(strip(input))
        n   == int_of(raw)
    IN  IF raw = <<"0">> THEN [kind |-> "None", file |-> <<>>]
        ELSE IF raw = <<"A">> THEN [kind |-> "ALL", file |-> <<>>]
        ELSE IF n.ok /\ 1 <= n.value /\ n.value <= Len(md_files)
        THEN [kind |-> "file", file |-> md_files[n.value]]
        ELSE NoChoice

\* out_dir = base_out_dir / "github_output" / (owner + "_" + repo) / stem
out_dir_of(cwd, owner, repo, md_path) ==
    cwd \o <<<<"m", "d", "_", "t", "o", "o", "l", "k", "i", "t", "_", "o", "u", "t", "p", "u", "t">>, <<"g", "i", "t", "h", "u", "b", "_", "o", "u", "t", "p", "u", "t">>,
             owner \o <<"_">> \o repo, stem(name_of(md_path))>>

\* run_menu_fn(md_path, out_dir) as the one-by-one branch calls it
batch_args_interactive(cwd, owner, repo, md_files, k) ==
    [md |-> md_files[k], out |-> out_dir_of(cwd, owner, repo, md_files[k]),
     single_shot |-> FALSE]

\* the call the for loop of the ALL branch makes for file k
batch_args(cwd, owner, repo, md_files, k) ==
    [md |-> md_files[k], out |-> out_dir_of(cwd, owner, repo, md_files[k]),
     single_shot |-> TRUE]

FLOW_CWD == <<<<"/">>, <<"h", "o", "m", "e">>>>

\* the Markdown files a fetched repository may hold
FlowTrees ==
    { {},
      {<<<<"R", "E", "A", "D", "M", "E", ".", "m", "d">>>>},
      {<<<<"R", "E", "A", "D", "M", "E", ".", "m", "d">>>>, <<<<"d", "o", "c", "s">>, <<"R", "E", "A", "D", "M", "E", ".", "m", "d">>>>, <<<<"a", ".", "m", "d">>>>} }

\* the document every file of a fetched repository holds: a fence and a table
FlowDoc == SaveText(<< [lang |-> <<"p", "y">>, hint |-> <<>>] >>, 1) \o MenuTable

\* what the user may type at the prompts of github_flow
BranchInputs == { <<>>, <<" ", "d", "e", "v">> }
ReuseInputs  == { <<>>, <<"y">>, <<" ", "N", " ">>, <<"n", "o">> }
AgainInputs  == { <<>>, <<"Y", " ">>, <<"y", "e", "s">>, <<"n">> }
PickInputs ==
    { <<"0">>, <<"a">>, <<" ", "2", " ">>, <<"+", "1">>, <<"4">>, <<"x">>, <<"0", "0">> }

NoCall == [md |-> <<>>, out |-> <<>>, single_shot |-> FALSE]

\* the fields of one call of github_flow before the repository is asked for
FlowCall(calls, disk) ==
    [on |-> "github_flow", calls |-> calls, disk |-> disk,
     owner |-> <<>>, repo |-> <<>>, branch |-> <<>>, clone |-> <<>>,
     how |-> "none", result |-> "none", md_files |-> <<>>, k |-> 0,
     cur |-> NoCall, log |-> <<>>]

\* pick_md_file(md_files, repo_root) is entered
PickCall(md_files) ==
    [on |-> "pick_md_file", md_files |-> md_files, inputs |-> <<>>,
     result |-> NoChoice]

\* run_menu(md_path, out_dir, single_shot) is entered
MenuCall(ss) ==
    [on |-> "run_menu", single_shot |-> ss, raw |-> <<>>,
     choice |-> <<>>, prompts |-> 0, warned |-> FALSE,
     ran |-> <<>>, status |-> <<>>, pdf |-> NoPdf, files |-> {}]

\* the files out_dir / "code" holds when run_menu is entered: those the
\* latest earlier call with the same out_dir left there
RECURSIVE code_dir_of(_, _)
code_dir_of(log, out) ==
    IF log = <<>> THEN <<>>
    ELSE IF log[Len(log)].out = out THEN log[Len(log)].code
    ELSE code_dir_of(SubSeq(log, 1, Len(log) - 1), out)

\* a directory that has just been made
EmptyDir(owner, repo) == [origin |-> <<owner, repo>>, files |-> {}, state |-> "empty"]

\* shutil.rmtree(clone_dir)
rmtree(disk, name) == [n \in DOMAIN disk \ {name} |-> disk[n]]

InitFlow ==
    /\ md_text = <<>>
    /\ pc = "gh_url"
    /\ matches = <<>>
    /\ blocks = <<>>
    /\ runs = <<>>
    /\ tables = <<>>
    /\ given = NoGiven
    /\ fetch = FlowCall(1, <<>>)
    /\ ScanIdle /\ SaveIdle /\ MenuIdle

\* the URL is read and parsed, and the branch asked for when the URL names
\* none; clone_dir is owner_repo under repos
ReadUrl ==
    /\ pc = "gh_url"
    /\ \E raw \in GithubInputs :
         LET url == strip(raw)
             r   == parse_github_url(url)
         IN  IF url = <<>> \/ r.owner = <<>>
             THEN /\ pc' = "gh_done"
                  /\ fetch' = [fetch EXCEPT !.how = "no_repo"]
             ELSE \E override \in IF r.branch = <<>> THEN BranchInputs ELSE {<<>>} :
                    /\ pc' = "gh_clone"
                    /\ fetch' = [fetch EXCEPT
                         !.owner = r.owner, !.repo = r.repo,
                         !.branch = IF r.branch # <<>> THEN r.branch
                                    ELSE strip(override),
                         !.clone = r.owner \o <<"_">> \o r.repo]
    /\ UNCHANGED <<md_text, matches, blocks, runs, tables, given,
                   scan, out_dir, saved, menu>>

\* clone_dir exists: the cached copy is used unless the answer is n or no,
\* and then the directory is removed and made again.  The branch is not
\* looked at after the download, so it is dropped there.
UseCached ==
    /\ pc = "gh_clone"
    /\ fetch.clone \in DOMAIN fetch.disk
    /\ \E reuse \in ReuseInputs :
         IF lower(strip(reuse)) \in {<<"n">>, <<"n", "o">>}
         THEN /\ pc' = "gh_download"
              /\ fetch' = [fetch EXCEPT
                   !.how = "again",
                   !.disk = (fetch.clone :> EmptyDir(fetch.owner, fetch.repo))
                              @@ rmtree(fetch.disk, fetch.clone)]
         ELSE /\ pc' = "gh_scan"
              /\ fetch' = [fetch EXCEPT !.how = "reused", !.branch = <<>>]
    /\ UNCHANGED <<md_text, matches, blocks, runs, tables, given,
                   scan, out_dir, saved, menu>>

\* clone_dir does not exist: clone_dir.mkdir(parents=True, exist_ok=True)
MakeCloneDir ==
    /\ pc = "gh_clone"
    /\ fetch.clone \notin DOMAIN fetch.disk
    /\ pc' = "gh_download"
    /\ fetch' = [fetch EXCEPT
         !.how = "first",
         !.disk = (fetch.clone :> EmptyDir(fetch.owner, fetch.repo)) @@ fetch.disk]
    /\ UNCHANGED <<md_text, matches, blocks, runs, tables, given,
                   scan, out_dir, saved, menu>>

\* if not _do_download(...): shutil.rmtree(clone_dir, ignore_errors=True);
\* return.  An exception of _do_download leaves github_flow at once.
DoDownload ==
    /\ pc = "gh_download"
    /\ \E o \in do_download(fetch.branch) :
         /\ pc' = IF o.result = "True" THEN "gh_scan"
                  ELSE IF o.result = "False" THEN "gh_done" ELSE "gh_raised"
         /\ \E t \in IF o.dest = "tree" THEN FlowTrees ELSE {{}} :
              fetch' = [fetch EXCEPT
                !.result = o.result,
                !.branch = <<>>,
                !.disk = IF o.result = "False" THEN rmtree(fetch.disk, fetch.clone)
                         ELSE IF o.dest = "tree"
                         THEN (fetch.clone :> [origin |-> <<fetch.owner, fetch.repo>>,
                                               files |-> t, state |-> "tree"])
                                @@ fetch.disk
                         ELSE fetch.disk]
    /\ UNCHANGED <<md_text, matches, blocks, runs, tables, given,
                   scan, out_dir, saved, menu>>

\* md_files = find_md_files(clone_dir), and the while loop is entered:
\* pick_md_file is called
ScanCloneDir ==
    /\ pc = "gh_scan"
    /\ \E r \in find_md_files(clone_dir_of(FLOW_CWD, fetch.owner, fetch.repo),
                              fetch.disk[fetch.clone].files) :
         /\ fetch' = [fetch EXCEPT !.md_files = r]
         /\ scan' = PickCall(r)
    /\ pc' = "gh_pick"
    /\ UNCHANGED <<md_text, matches, blocks, runs, tables, given,
                   out_dir, saved, menu>>

\* pick_md_file with no file or one file: it returns without asking
PickNoPrompt ==
    /\ pc = "gh_pick"
    /\ Len(scan.md_files) <= 1
    /\ scan' = [scan EXCEPT
         !.result = IF scan.md_files = <<>> THEN [kind |-> "None", file |-> <<>>]
                    ELSE [kind |-> "file", file |-> scan.md_files[1]]]
    /\ pc' = "gh_choice"
    /\ UNCHANGED <<md_text, matches, blocks, runs, tables, given,
                   out_dir, saved, menu, fetch>>

\* pick_md_file with several files: one iteration of its while loop
PickPrompt ==
    /\ pc = "gh_pick"
    /\ Len(scan.md_files) >= 2
    /\ Len(scan.inputs) < MaxPicks
    /\ \E input \in PickInputs :
         LET r == pick(input, scan.md_files) IN
         /\ scan' = [scan EXCEPT !.inputs = Append(@, input), !.result = r]
         /\ pc' = IF r = NoChoice THEN "gh_pick" ELSE "gh_choice"
    /\ UNCHANGED <<md_text, matches, blocks, runs, tables, given,
                   out_dir, saved, menu, fetch>>

\* if choice is None: return
Cancelled ==
    /\ pc = "gh_choice"
    /\ scan.result.kind = "None"
    /\ pc' = "gh_done"
    /\ scan' = NoScan
    /\ UNCHANGED <<md_text, matches, blocks, runs, tables, given,
                   out_dir, saved, menu, fetch>>

\* if choice == "ALL": the for loop over md_files begins
StartBatch ==
    /\ pc = "gh_choice"
    /\ scan.result.kind = "ALL"
    /\ pc' = "gh_batch"
    /\ fetch' = [fetch EXCEPT !.k = 1]
    /\ scan' = NoScan
    /\ UNCHANGED <<md_text, matches, blocks, runs, tables, given,
                   out_dir, saved, menu>>

\* else: run_menu_fn(choice, out_dir) with the menu
RunChosen ==
    /\ pc = "gh_choice"
    /\ scan.result.kind = "file"
    /\ LET out == out_dir_of(FLOW_CWD, fetch.owner, fetch.repo, scan.result.file) IN
       /\ fetch' = [fetch EXCEPT
            !.cur = [md |-> scan.result.file, out |-> out, single_shot |-> FALSE]]
       /\ out_dir' = code_dir_of(fetch.log, out)
    /\ md_text' = FlowDoc
    /\ menu' = MenuCall(FALSE)
    /\ pc' = "start"
    /\ scan' = NoScan
    /\ UNCHANGED <<matches, blocks, runs, tables, given, saved>>

\* one iteration of the for loop: run_menu_fn(md_path, out_dir,
\* single_shot=True)
BatchNext ==
    /\ pc = "gh_batch"
    /\ fetch.k <= Len(fetch.md_files)
    /\ LET a == batch_args(FLOW_CWD, fetch.owner, fetch.repo, fetch.md_files, fetch.k) IN
       /\ fetch' = [fetch EXCEPT !.cur = a, !.k = @ + 1]
       /\ out_dir' = code_dir_of(fetch.log, a.out)
       /\ menu' = MenuCall(a.single_shot)
    /\ md_text' = FlowDoc
    /\ pc' = "start"
    /\ UNCHANGED <<matches, blocks, runs, tables, given, scan, saved>>

\* the for loop is over: "All files processed." and return
BatchDone ==
    /\ pc = "gh_batch"
    /\ fetch.k > Len(fetch.md_files)
    /\ pc' = "gh_done"
    /\ UNCHANGED <<md_text, matches, blocks, runs, tables, given,
                   scan, out_dir, saved, menu, fetch>>

\* run_menu has returned to github_flow: the call is noted with what it ran
\* last and the files it left in out_dir / "code"
RunMenuReturned ==
    /\ pc = "returned"
    /\ fetch.on = "github_flow"
    /\ fetch' = [fetch EXCEPT
         !.log = Append(@, [md |-> fetch.cur.md, out |-> fetch.cur.out,
                            single_shot |-> menu.single_shot,
                            ran |-> menu.ran, prompts |-> menu.prompts,
                            code |-> out_dir]),
         !.cur = NoCall]
    /\ pc' = IF fetch.cur.single_shot THEN "gh_batch" ELSE "gh_again"
    /\ md_text' = <<>>
    /\ matches' = <<>>
    /\ blocks' = <<>>
    /\ tables' = <<>>
    /\ out_dir' = <<>>
    /\ saved' = <<>>
    /\ menu' = NoMenu
    /\ UNCHANGED <<runs, given, scan>>

\* "Process another file from this repo? [y/N]": pick_md_file is called
\* again after y or yes
ProcessAnother ==
    /\ pc = "gh_again"
    /\ \E again \in AgainInputs :
         IF lower(strip(again)) \in {<<"y">>, <<"y", "e", "s">>}
         THEN /\ Len(fetch.log) < MaxRuns
              /\ pc' = "gh_pick"
              /\ scan' = PickCall(fetch.md_files)
         ELSE /\ pc' = "gh_done"
              /\ scan' = NoScan
    /\ UNCHANGED <<md_text, matches, blocks, runs, tables, given,
                   out_dir, saved, menu, fetch>>

\* github_flow is over, by return or by an exception that ends the program;
\* the user asks for a repository again, in this run or the next
NextCall ==
    /\ pc \in {"gh_done", "gh_raised"}
    /\ fetch.calls < MaxCalls
    /\ fetch' = FlowCall(fetch.calls + 1, fetch.disk)
    /\ pc' = "gh_url"
    /\ UNCHANGED <<md_text, matches, blocks, runs, tables, given,
                   scan, out_dir, saved, menu>>

NextFlow ==
    \/ ReadUrl
    \/ UseCached
    \/ MakeCloneDir
    \/ DoDownload
    \/ ScanCloneDir
    \/ PickNoPrompt
    \/ PickPrompt
    \/ Cancelled
    \/ StartBatch
    \/ RunChosen
    \/ BatchNext
    \/ BatchDone
    \/ LoadMd
    \/ ReadChoice
    \/ StepCode
    \/ StepCsv
    \/ StepXlsx
    \/ StepHtml
    \/ StepPdf
    \/ StepSummary
    \/ AllDone
    \/ RunMenuReturned
    \/ ProcessAnother
    \/ NextCall

SpecFlow == InitFlow /\ [][NextFlow]_vars

-----------------------------------------------------------------------------
\* the calls of run_menu the ALL branch has made and seen return
BatchLog == SelectSeq(fetch.log, LAMBDA e : e.single_shot)

-----------------------------------------------------------------------------
\* C22: two different Markdown files of one repository are given different
\* output directories.
C22_DistinctOutDirs ==
    fetch.on = "github_flow" =>
      \A i, j \in 1..Len(fetch.log) :
        fetch.log[i].md # fetch.log[j].md => fetch.log[i].out # fetch.log[j].out

-----------------------------------------------------------------------------
\* a line that reads as a whole number, and the number
Numeric(t) ==
    LET ds == IF t # <<>> /\ t[1] \in {"+", "-"} THEN Tail(t) ELSE t IN
    ds # <<>> /\ \A i \in 1..Len(ds) : IndexIn(Digits, ds[i]) > 0
ValueOf(t) ==
    IF t[1] = "-" THEN 0 - DecimalValue(Tail(t))
    ELSE IF t[1] = "+" THEN DecimalValue(Tail(t)) ELSE DecimalValue(t)

\* the answer the picker is to give to a line, none when it is to ask again
Answer(input, md_files) ==
    LET t == upper(strip(input)) IN
    IF t = <<"0">> THEN [kind |-> "None", file |-> <<>>]
    ELSE IF t = <<"A">> THEN [kind |-> "ALL", file |-> <<>>]
    ELSE IF Numeric(t) /\ ValueOf(t) \in 1..Len(md_files)
    THEN [kind |-> "file", file |-> md_files[ValueOf(t)]]
    ELSE NoChoice

\* C24: pick_md_file returns None, "ALL" or a file of md_files: None for no
\* file and the file for one file, both without asking; otherwise it asks
\* again after every line that is neither 0, A nor a number in
\* 1..len(md_files), and returns what the first other line stands for.
C24_PickMdFile ==
    (scan.on = "pick_md_file" /\ pc \in {"gh_pick", "gh_choice"}) =>
      LET mf       == scan.md_files
          returned == pc = "gh_choice"
      IN  /\ returned => scan.result.kind \in {"None", "ALL", "file"}
          /\ scan.result.kind = "file" => scan.result.file \in Range(mf)
          /\ Len(mf) = 0 =>
               /\ scan.inputs = <<>>
               /\ returned => scan.result.kind = "None"
          /\ Len(mf) = 1 =>
               /\ scan.inputs = <<>>
               /\ returned => scan.result = [kind |-> "file", file |-> mf[1]]
          /\ Len(mf) >= 2 =>
               /\ returned => scan.inputs # <<>>
               /\ \A i \in 1..Len(scan.inputs) :
                    IF returned /\ i = Len(scan.inputs)
                    THEN /\ Answer(scan.inputs[i], mf) # NoChoice
                         /\ scan.result = Answer(scan.inputs[i], mf)
                    ELSE Answer(scan.inputs[i], mf) = NoChoice

\* three files, the line 00 is turned down and the line " 2 " picks the
\* second file
C24_Witness ==
    /\ pc = "gh_choice"
    /\ scan.on = "pick_md_file"
    /\ Len(scan.md_files) = 3
    /\ scan.inputs = << <<"0", "0">>, <<" ", "2", " ">> >>
    /\ scan.result = [kind |-> "file", file |-> scan.md_files[2]]

-----------------------------------------------------------------------------
\* C29: the files are scanned only after a download that succeeded or after
\* the cached copy was taken; after a download that failed, by returning
\* False or by an exception, clone_dir is gone; so a directory found at
\* clone_dir by a later call holds a fetched tree.
C29_FailedDownloadCleans ==
    fetch.on = "github_flow" =>
      /\ pc = "gh_scan" => (fetch.how = "reused" \/ fetch.result = "True")
      /\ (pc = "gh_done" /\ fetch.result = "False") =>
           fetch.clone \notin DOMAIN fetch.disk
      /\ pc = "gh_raised" => fetch.clone \notin DOMAIN fetch.disk
      /\ (pc = "gh_clone" /\ fetch.clone \in DOMAIN fetch.disk) =>
           fetch.disk[fetch.clone].state = "tree"

-----------------------------------------------------------------------------
\* C30: the directory repos/<owner>_<repo> identifies the repository: a
\* cached copy that is reused was fetched for the owner and repository now
\* asked for.
C30_CacheIdentifiesRepo ==
    (fetch.on = "github_flow" /\ pc = "gh_scan" /\ fetch.how = "reused") =>
      fetch.disk[fetch.clone].origin = <<fetch.owner, fetch.repo>>

=============================================================================
